---- MODULE Spec2Model ----
(***************************************************************************)
(* The "Date & Time" page (pages/time/date.rs) and the "Region & Language" *)
(* page (pages/time/region.rs) of cosmic-settings, with the two config     *)
(* stores, the locale1 and timedate1 services and the asynchronous tasks   *)
(* the pages start.                                                        *)
(*                                                                         *)
(* Conventions.  Option<T> is a sequence of length 0 (None) or 1 (Some).   *)
(* Vec<T> is a sequence; the source's 0-based index i is position i + 1.   *)
(* A String that is searched is a sequence of one-character strings.       *)
(***************************************************************************)
EXTENDS Integers, Sequences, FiniteSets, Bags, TLC

\* ------------------------------------------------------------------ bounds

\* Number of locales the system knows (localectl list-locales).
NumLangs == 2
\* iced futures (cosmic::Task) in flight at once.
MaxFutures == 1
\* tokio::spawn'ed tasks in flight at once.
MaxSpawned == 2
\* Futures of the Date & Time page in flight at once.
MaxRequests == 2
\* Number of time zones timedate1 lists.
NumTz == 2

\* ----------------------------------------------------------------- options

None == << >>
Some(x) == << x >>
IsSome(o) == Len(o) = 1
Unwrap(o) == o[1]

\* ----------------------------------------------------------------- strings

EmptyString == << >>

Uppers == << "A","B","C","D","E","F","G","H","I","J","K","L","M",
             "N","O","P","Q","R","S","T","U","V","W","X","Y","Z" >>
Lowers == << "a","b","c","d","e","f","g","h","i","j","k","l","m",
             "n","o","p","q","r","s","t","u","v","w","x","y","z" >>

\* char::to_lowercase / to_uppercase on the ASCII letters.
LowerChar(c) ==
    IF \E i \in 1..26 : Uppers[i] = c
    THEN Lowers[CHOOSE i \in 1..26 : Uppers[i] = c]
    ELSE c
UpperChar(c) ==
    IF \E i \in 1..26 : Lowers[i] = c
    THEN Uppers[CHOOSE i \in 1..26 : Lowers[i] = c]
    ELSE c

\* str::to_lowercase
to_lowercase(s) == [i \in 1..Len(s) |-> LowerChar(s[i])]

IsWhitespace(c) == c = " "

\* str::trim: drops leading and trailing whitespace.
RECURSIVE trim_start(_)
trim_start(s) ==
    IF s # << >> /\ IsWhitespace(Head(s)) THEN trim_start(Tail(s)) ELSE s
RECURSIVE trim_end(_)
trim_end(s) ==
    IF s # << >> /\ IsWhitespace(s[Len(s)])
    THEN trim_end(SubSeq(s, 1, Len(s) - 1))
    ELSE s
trim(s) == trim_end(trim_start(s))

\* str::contains(pattern): pattern occurs as a contiguous substring.
contains(s, pat) ==
    \E k \in 0..(Len(s) - Len(pat)) : SubSeq(s, k + 1, k + Len(pat)) = pat

\* Code-point order of the characters that occur in names.
CharOrder == << " ", "(", ")" >> \o Uppers \o << "_" >> \o Lowers
CharRank(c) == CHOOSE i \in 1..Len(CharOrder) : CharOrder[i] = c

\* String's Ord: lexicographic by character.
RECURSIVE StrLess(_, _)
StrLess(a, b) ==
    IF b = << >> THEN FALSE
    ELSE IF a = << >> THEN TRUE
    ELSE IF Head(a) = Head(b) THEN StrLess(Tail(a), Tail(b))
    ELSE CharRank(Head(a)) < CharRank(Head(b))

\* ------------------------------------------------------------ locale data

\* The locales of the model, as localectl list-locales prints them.
AllCodes == << "en_US.UTF-8", "de_DE.UTF-8", "fr_FR.UTF-8", "ja_JP.UTF-8" >>
Codes == { AllCodes[i] : i \in 1..NumLangs }

\* iso_639 / iso_3166 display names of the locale registry.
LanguageName(code) ==
    CASE code = "en_US.UTF-8" -> << "E","n","g","l","i","s","h" >>
      [] code = "de_DE.UTF-8" -> << "G","e","r","m","a","n" >>
      [] code = "fr_FR.UTF-8" -> << "F","r","e","n","c","h" >>
      [] OTHER                -> << "J","a","p","a","n","e","s","e" >>
CountryName(code) ==
    CASE code = "en_US.UTF-8" -> << "U","n","i","t","e","d"," ","S","t","a","t","e","s" >>
      [] code = "de_DE.UTF-8" -> << "G","e","r","m","a","n","y" >>
      [] code = "fr_FR.UTF-8" -> << "F","r","a","n","c","e" >>
      [] OTHER                -> << "J","a","p","a","n" >>

\* localized_iso_codes: the language is title-cased.
localized_iso_codes(code) ==
    LET language == LanguageName(code)
        titled == IF language = << >> THEN language
                  ELSE << UpperChar(Head(language)) >> \o Tail(language)
    IN  << titled, CountryName(code) >>

\* localized_locale: "{language} ({country})" and "{country} ({language})".
localized_locale(code) ==
    LET lc == localized_iso_codes(code)
    IN  [ lang_code    |-> code,
          display_name |-> lc[1] \o << " ", "(" >> \o lc[2] \o << ")" >>,
          region_name  |-> lc[2] \o << " ", "(" >> \o lc[1] \o << ")" >> ]

\* BTreeSet<SystemLocale> iterated in order: Ord and Eq are by display_name,
\* so entries with an equal display_name collapse into one.
RECURSIVE SortedByDisplayName(_)
SortedByDisplayName(S) ==
    IF S = {} THEN << >>
    ELSE LET m == CHOOSE x \in S :
                    \A y \in S : ~StrLess(y.display_name, x.display_name)
         IN  << m >> \o SortedByDisplayName(
                 { y \in S : y.display_name # m.display_name })

\* SlotMap filled by successive insert(): keys 0, 1, ... in insertion order.
SlotMapOf(seq) == [ k \in 0..(Len(seq) - 1) |-> seq[k + 1] ]
EmptySlotMap == SlotMapOf(<< >>)

\* Vec<T> operations, by the source's 0-based index.
InBounds(v, i) == i >= 0 /\ i < Len(v)
get(v, i) == IF InBounds(v, i) THEN Some(v[i + 1]) ELSE None
swap(v, a, b) == [ v EXCEPT ![a + 1] = v[b + 1], ![b + 1] = v[a + 1] ]
remove(v, i) == SubSeq(v, 1, i) \o SubSeq(v, i + 2, Len(v))
push(v, x) == Append(v, x)
vec_contains(v, x) == \E k \in 1..Len(v) : v[k] = x
position(v, x) ==
    IF vec_contains(v, x)
    THEN Some((CHOOSE k \in 1..Len(v) :
                  v[k] = x /\ \A j \in 1..(k - 1) : v[j] # x) - 1)
    ELSE None

\* ------------------------------------------------------------------- state

VARIABLES
    \* region.rs, struct Page
    config,                  \* Option<(Config, Vec<String>)>: Some(locales)
    context,                 \* Option<ContextView>
    language,                \* Option<SystemLocale>
    region,                  \* Option<SystemLocale>
    available_languages,     \* SlotMap<DefaultKey, SystemLocale>
    system_locales,          \* BTreeMap<String, SystemLocale>
    registry,                \* Option<locale::Registry>
    expanded_source_popover, \* Option<usize>
    add_language_search,     \* String
    \* date.rs, struct Page
    first_day_of_week,       \* usize
    military_time,           \* bool
    show_seconds,            \* bool
    ntp_enabled,             \* bool
    show_date_in_top_panel,  \* bool
    timezone_context,        \* bool
    timezone,                \* Option<usize>
    timezone_list,           \* Vec<String>
    timezone_search,         \* String
    \* the world around the pages
    settings_store,          \* key system_locales of com.system76.CosmicSettings
    applet_store,            \* the four keys of com.system76.CosmicAppletTime
    locale1,                 \* the system locale: LANG and the LC_* region
    timedate1,               \* the timedate1 service: timezone, ntp
    futures,                 \* futures of the Region & Language page (a bag)
    requests,                \* futures of the Date & Time page (a bag)
    spawned,                 \* tokio::spawn'ed tasks in flight (a bag)
    panicked,                \* update() or a view hit a Rust panic
    drawer,                  \* the rows of the last rendered drawer list
    active,                  \* the page that is open: "none", "region", "date"
    last,                    \* the message update() handled last
    emitted                  \* the application message that update() returned

regionPage == << config, context, language, region, available_languages,
                 system_locales, registry, expanded_source_popover,
                 add_language_search >>
datePage == << first_day_of_week, military_time, show_seconds, ntp_enabled,
               show_date_in_top_panel, timezone_context, timezone,
               timezone_list, timezone_search >>
shown == << drawer, active >>
world == << settings_store, applet_store, locale1, timedate1, futures,
            requests, spawned, panicked, shown >>
vars == << regionPage, datePage, world, last, emitted >>

\* The application opens one page at a time: it calls the page's on_enter
\* when the page is opened and its on_leave when it is left, and only the
\* open page is rendered, so only the open page receives the user's messages.
\* What a task delivers reaches its page whether or not the page is open.

\* The message update() handled last (or the page call made last): its name.
Handled(msg) == msg

\* The entities the application gave the pages with set_id.
DateEntity == "time-date"
RegionEntity == "time-region"

\* What the Task returned by update() sends to the application at once:
\* nothing (Task::none, or a future that is still to run) or one message.
NoMessage == None
AppMessage(msg, entity) == Some([ msg |-> msg, entity |-> entity ])
OpenContextDrawer(entity) == AppMessage("OpenContextDrawer", entity)
CloseContextDrawer == AppMessage("CloseContextDrawer", "")

BagAdd(b, e) == b (+) SetToBag({e})
BagRemove(b, e) == b (-) SetToBag({e})

\* ------------------------------------------------- Region & Language: tasks

\* localectl list-locales, without "C.UTF-8": every locale of the model.
list_locales == Codes

NoSystemLocales == [ LANG |-> None, LC_TIME |-> None ]

BlankRefresh ==
    [ config |-> None, registry |-> None, language |-> None, region |-> None,
      available_languages |-> EmptySlotMap, system_locales |-> NoSystemLocales ]
NoResult == [ ok |-> FALSE, refresh |-> BlankRefresh ]

\* A future of the Region & Language page: kind is the message that started
\* it, pc the step it is to take next.
Future(kind, pc, lang, reg, result) ==
    [ kind |-> kind, pc |-> pc, lang |-> lang, region |-> reg, result |-> result ]

\* page_reload() -> Ok(PageRefresh), reading the system as it is now.
\* config_ok: cosmic_config::Config::new succeeded.
page_reload(config_ok) ==
    LET localized(o) == IF IsSome(o) THEN Some(localized_locale(Unwrap(o))) ELSE None
        sys == [ LANG |-> localized(locale1.LANG),
                 LC_TIME |-> localized(locale1.LC_TIME) ]
        current == IF IsSome(sys.LANG) THEN Unwrap(sys.LANG).lang_code
                   ELSE "en_US.UTF-8"
        locales == IF IsSome(settings_store) THEN Unwrap(settings_store)
                   ELSE << current >>
    IN  [ config |-> IF config_ok THEN Some(locales) ELSE None,
          registry |-> Some("Registry"),
          \* LC_ALL is no variable of locale1: LANG decides
          language |-> sys.LANG,
          region |-> IF IsSome(sys.LC_TIME) THEN sys.LC_TIME ELSE sys.LANG,
          available_languages |->
              SlotMapOf(SortedByDisplayName(
                  { localized_locale(c) : c \in list_locales })),
          system_locales |-> sys ]

\* set_locale(lang, region): localectl set-locale LANG=lang LC_*=region; the
\* exit status is dropped, so a failed call changes nothing.
set_locale(lang, reg, ok) ==
    IF ok THEN [ LANG |-> Some(lang), LC_TIME |-> Some(reg) ] ELSE locale1

\* ICU data behind get_default_24h: whether 13:00 is formatted with "13".
get_default_24h(locale) ==
    CASE locale = "en_US.UTF-8" -> FALSE
      [] locale = "de_DE.UTF-8" -> TRUE
      [] locale = "fr_FR.UTF-8" -> TRUE
      [] locale = "ja_JP.UTF-8" -> TRUE
      [] OTHER                  -> FALSE

\* ICU data behind get_default_first_day: 0 = Monday ... 6 = Sunday.
get_default_first_day(locale) ==
    CASE locale = "en_US.UTF-8" -> 6
      [] locale = "de_DE.UTF-8" -> 0
      [] locale = "fr_FR.UTF-8" -> 0
      [] locale = "ja_JP.UTF-8" -> 6
      [] OTHER                  -> 6

\* update_time_settings_after_region_change writing military_time only.
update_time_settings_after_region_change_OneKey(reg, config_ok, ok1, ok2) ==
    IF ~config_ok THEN applet_store
    ELSE [ applet_store EXCEPT
             !.military_time =
                 IF ok1 THEN Some(get_default_24h(reg)) ELSE @ ]

\* update_time_settings_after_region_change(region): writes the region's
\* defaults to the applet store; each failure is only logged.
update_time_settings_after_region_change(reg, config_ok, ok1, ok2) ==
    IF ~config_ok THEN applet_store
    ELSE [ applet_store EXCEPT
             !.military_time =
                 IF ok1 THEN Some(get_default_24h(reg)) ELSE @,
             !.first_day_of_week =
                 IF ok2 THEN Some(get_default_first_day(reg)) ELSE @ ]

\* on_enter: starts a future that runs page_reload and delivers Refresh.
Region_on_enter ==
    /\ ~panicked
    /\ active = "none"
    /\ active' = "region"
    /\ BagCardinality(futures) < MaxFutures
    /\ futures' = BagAdd(futures, Future("on_enter", "page_reload", "", "", NoResult))
    /\ last' = Handled("Region.on_enter")
    /\ emitted' = NoMessage
    /\ UNCHANGED << regionPage, datePage, settings_store, applet_store,
                    locale1, timedate1, requests, spawned, panicked, drawer >>

\* on_leave: resets the page.
Region_on_leave ==
    /\ ~panicked
    /\ active = "region"
    /\ active' = "none"
    /\ add_language_search' = EmptyString
    /\ available_languages' = EmptySlotMap
    /\ config' = None
    /\ context' = None
    /\ expanded_source_popover' = None
    /\ language' = None
    /\ region' = None
    /\ registry' = None
    /\ system_locales' = NoSystemLocales
    /\ last' = Handled("Region.on_leave")
    /\ emitted' = NoMessage
    /\ UNCHANGED << datePage, settings_store, applet_store, locale1,
                    timedate1, futures, requests, spawned, panicked, drawer >>

\* A future reaches its page_reload().await: Ok(PageRefresh) or Err.
PageReloadStep(f, reload_ok, config_ok) ==
    /\ ~panicked
    /\ BagIn(f, futures)
    /\ f.pc = "page_reload"
    /\ reload_ok \/ config_ok
    /\ futures' = BagAdd(BagRemove(futures, f),
                    [ f EXCEPT !.pc = "deliver",
                               !.result = IF reload_ok
                                          THEN [ ok |-> TRUE,
                                                 refresh |-> page_reload(config_ok) ]
                                          ELSE NoResult ])
    /\ UNCHANGED << regionPage, datePage, settings_store, applet_store,
                    locale1, timedate1, requests, spawned, panicked, shown, last,
                    emitted >>

\* The SelectRegion future's first step: set_locale(lang, region).await
SelectRegionSetLocale(f, ok) ==
    /\ ~panicked
    /\ BagIn(f, futures)
    /\ f.pc = "set_locale"
    /\ locale1' = set_locale(f.lang, f.region, ok)
    /\ futures' = BagAdd(BagRemove(futures, f), [ f EXCEPT !.pc = "time_settings" ])
    /\ UNCHANGED << regionPage, datePage, settings_store, applet_store,
                    timedate1, requests, spawned, panicked, shown, last,
                    emitted >>

\* The SelectRegion future's second step.
SelectRegionTimeSettings(f, config_ok, ok1, ok2) ==
    /\ ~panicked
    /\ BagIn(f, futures)
    /\ f.pc = "time_settings"
    /\ config_ok \/ (ok1 /\ ok2)
    /\ applet_store' =
           update_time_settings_after_region_change(f.region, config_ok, ok1, ok2)
    /\ futures' = BagAdd(BagRemove(futures, f), [ f EXCEPT !.pc = "page_reload" ])
    /\ UNCHANGED << regionPage, datePage, settings_store, locale1,
                    timedate1, requests, spawned, panicked, shown, last,
                    emitted >>

\* The InstallAdditionalLanguages future's first step: the external
\* gnome-language-selector runs and exits.
InstallToolStep(f) ==
    /\ ~panicked
    /\ BagIn(f, futures)
    /\ f.pc = "gnome-language-selector"
    /\ futures' = BagAdd(BagRemove(futures, f), [ f EXCEPT !.pc = "page_reload" ])
    /\ UNCHANGED << regionPage, datePage, settings_store, applet_store,
                    locale1, timedate1, requests, spawned, panicked, shown, last,
                    emitted >>

\* A tokio::spawn'ed set_locale task of SourceContext runs.
SetLocaleTask(t, ok) ==
    /\ ~panicked
    /\ BagIn(t, spawned)
    /\ t.kind = "set_locale"
    /\ locale1' = set_locale(t.lang, t.region, ok)
    /\ spawned' = BagRemove(spawned, t)
    /\ UNCHANGED << regionPage, datePage, settings_store, applet_store,
                    timedate1, futures, requests, panicked, shown, last,
                    emitted >>

\* ---------------------------------------------- Region & Language: update()

\* Inputs: slot-map keys and list indices, with one past every valid value.
Keys == 0..NumLangs
Indices == 0..NumLangs
SourceContextKinds == { "MoveDown", "MoveUp", "Remove" }

Spawn(kind, lang, reg, enable) ==
    [ kind |-> kind, lang |-> lang, region |-> reg, enable |-> enable ]

\* SlotMap::get / contains_key
HasKey(id) == id \in DOMAIN available_languages
\* SlotMap::remove
WithoutKey(id) ==
    [ k \in DOMAIN available_languages \ {id} |-> available_languages[k] ]

\* available_languages.values().find(|lang| &lang.lang_code == code)
FindLanguage(code) ==
    LET hits == { k \in DOMAIN available_languages :
                     available_languages[k].lang_code = code }
    IN  IF hits = {} THEN None
        ELSE Some(available_languages[CHOOSE k \in hits : \A j \in hits : k <= j])

\* set_system_locales with the write left out.
set_system_locales_Skipped(locales, ok) == settings_store

\* config.set("system_locales", &locales): the list is stored as it is now;
\* the outcome is dropped, and a failed write leaves the stored list.
set_system_locales(locales, ok) ==
    IF ok THEN Some(locales) ELSE settings_store

\* AddLanguage without the look into the list.
AddLanguageApplies_Unchecked(id) ==
    /\ HasKey(id)
    /\ IsSome(config)

\* Message::AddLanguage(id)
AddLanguageApplies(id) ==
    /\ HasKey(id)
    /\ IsSome(config)
    /\ ~vec_contains(Unwrap(config), available_languages[id].lang_code)

AddLanguage(id, ok) ==
    /\ ~panicked
    /\ active = "region"
    /\ IF AddLanguageApplies(id)
       THEN LET locales == push(Unwrap(config), available_languages[id].lang_code)
            IN  /\ config' = Some(locales)
                /\ settings_store' = set_system_locales(locales, ok)
                /\ last' = Handled("AddLanguage")
                /\ emitted' = NoMessage
       ELSE /\ ok
            /\ last' = Handled("AddLanguage")
            /\ emitted' = NoMessage
            /\ UNCHANGED << config, settings_store >>
    /\ UNCHANGED << context, language, region, available_languages,
                    system_locales, registry, expanded_source_popover,
                    add_language_search, datePage, applet_store, locale1,
                    timedate1, futures, requests, spawned, panicked, shown >>

\* Message::RemoveLanguage(id): the entry is taken out of available_languages
\* by SlotMap::remove before the list is looked at.
RemoveLanguagePosition(id) ==
    IF HasKey(id) /\ IsSome(config)
    THEN position(Unwrap(config), available_languages[id].lang_code)
    ELSE None

RemoveLanguage(id, ok) ==
    /\ ~panicked
    /\ active = "region"
    /\ available_languages' = IF HasKey(id) THEN WithoutKey(id)
                              ELSE available_languages
    /\ IF IsSome(RemoveLanguagePosition(id))
       THEN LET locales == remove(Unwrap(config), Unwrap(RemoveLanguagePosition(id)))
            IN  /\ config' = Some(locales)
                /\ settings_store' = set_system_locales(locales, ok)
                /\ last' = Handled("RemoveLanguage")
                /\ emitted' = NoMessage
       ELSE /\ ok
            /\ last' = Handled("RemoveLanguage")
            /\ emitted' = NoMessage
            /\ UNCHANGED << config, settings_store >>
    /\ UNCHANGED << context, language, region, system_locales, registry,
                    expanded_source_popover, add_language_search, datePage,
                    applet_store, locale1, timedate1, futures, requests,
                    spawned, panicked, shown >>

\* Message::SelectRegion(id)
SelectRegionApplies(id) == HasKey(id) /\ IsSome(language)

\* The future of SelectRegion leaving out the set_locale call.
SelectRegionFuture_NoSetLocale(id) ==
    Future("SelectRegion", "time_settings", Unwrap(language).lang_code,
           available_languages[id].lang_code, NoResult)

\* The future SelectRegion returns: it starts at set_locale(lang, region).
SelectRegionFuture(id) ==
    Future("SelectRegion", "set_locale", Unwrap(language).lang_code,
           available_languages[id].lang_code, NoResult)

SelectRegion(id) ==
    /\ ~panicked
    /\ active = "region"
    /\ last' = Handled("SelectRegion")
    /\ emitted' = NoMessage
    /\ IF SelectRegionApplies(id)
       THEN /\ BagCardinality(futures) < MaxFutures
            /\ region' = Some(available_languages[id])
            /\ futures' = BagAdd(futures, SelectRegionFuture(id))
       ELSE UNCHANGED << region, futures >>
    /\ UNCHANGED << config, context, language, available_languages,
                    system_locales, registry, expanded_source_popover,
                    add_language_search, datePage, settings_store,
                    applet_store, locale1, timedate1, requests, spawned, panicked, shown >>

\* Message::InstallAdditionalLanguages
InstallAdditionalLanguages ==
    /\ ~panicked
    /\ active = "region"
    /\ BagCardinality(futures) < MaxFutures
    /\ futures' = BagAdd(futures,
           Future("InstallAdditionalLanguages", "gnome-language-selector",
                  "", "", NoResult))
    /\ last' = Handled("InstallAdditionalLanguages")
    /\ emitted' = NoMessage
    /\ UNCHANGED << regionPage, datePage, settings_store, applet_store,
                    locale1, timedate1, requests, spawned, panicked, shown >>

\* Message::Refresh(result), delivered by a future that finished.
Region_Refresh(f) ==
    /\ ~panicked
    /\ BagIn(f, futures)
    /\ f.pc = "deliver"
    /\ futures' = BagRemove(futures, f)
    /\ last' = Handled("Region.Refresh")
    /\ emitted' = NoMessage
    /\ IF f.result.ok
       THEN /\ config' = f.result.refresh.config
            /\ available_languages' = f.result.refresh.available_languages
            /\ system_locales' = f.result.refresh.system_locales
            /\ language' = f.result.refresh.language
            /\ region' = f.result.refresh.region
            /\ registry' = f.result.refresh.registry
       ELSE UNCHANGED << config, available_languages, system_locales,
                         language, region, registry >>
    /\ UNCHANGED << context, expanded_source_popover, add_language_search,
                    datePage, settings_store, applet_store, locale1,
                    timedate1, requests, spawned, panicked, shown >>

\* SourceContextLocales with MoveUp's guard off by one (id > 1).
SourceContextLocales_MoveUpSkipsSecond(kind, id, locales) ==
    CASE kind = "MoveDown" ->
             IF id + 1 < Len(locales) THEN swap(locales, id, id + 1) ELSE locales
      [] kind = "MoveUp" ->
             IF id > 1 THEN swap(locales, id, id - 1) ELSE locales
      [] kind = "Remove" -> remove(locales, id)

\* SourceContextLocales with Remove taking out the last entry (a pop).
SourceContextLocales_RemovePops(kind, id, locales) ==
    CASE kind = "MoveDown" ->
             IF id + 1 < Len(locales) THEN swap(locales, id, id + 1) ELSE locales
      [] kind = "MoveUp" ->
             IF id > 0 THEN swap(locales, id, id - 1) ELSE locales
      [] kind = "Remove" -> remove(locales, Len(locales) - 1)

\* Message::SourceContext(context_message): the new list.  MoveDown checks
\* the upper end, MoveUp only the lower end, Remove nothing.
SourceContextLocales(kind, id, locales) ==
    CASE kind = "MoveDown" ->
             IF id + 1 < Len(locales) THEN swap(locales, id, id + 1) ELSE locales
      [] kind = "MoveUp" ->
             IF id > 0 THEN swap(locales, id, id - 1) ELSE locales
      [] kind = "Remove" -> remove(locales, id)

\* Vec::swap and Vec::remove panic on an index that is out of bounds.
SourceContextPanics(kind, id, locales) ==
    CASE kind = "MoveDown" -> FALSE
      [] kind = "MoveUp" -> id > 0 /\ ~InBounds(locales, id)
      [] kind = "Remove" -> ~InBounds(locales, id)

\* The language SourceContext switches to: the available language whose
\* lang_code is the first entry of the list, if there is one.
SourceContextLanguage(locales) ==
    IF IsSome(get(locales, 0)) THEN FindLanguage(Unwrap(get(locales, 0))) ELSE None

SourceContext(kind, id, ok) ==
    /\ ~panicked
    /\ active = "region"
    /\ expanded_source_popover' = None
    /\ IF ~IsSome(config)
       THEN /\ ok
            /\ last' = Handled(kind)
            /\ emitted' = NoMessage
            /\ UNCHANGED << config, language, settings_store, spawned, panicked >>
       ELSE IF SourceContextPanics(kind, id, Unwrap(config))
       THEN /\ ok
            /\ panicked' = TRUE
            /\ last' = Handled(kind)
            /\ emitted' = NoMessage
            /\ UNCHANGED << config, language, settings_store, spawned >>
       ELSE LET locales == SourceContextLocales(kind, id, Unwrap(config))
                found == SourceContextLanguage(locales)
            IN  /\ config' = Some(locales)
                /\ settings_store' = set_system_locales(locales, ok)
                /\ last' = Handled(kind)
                /\ emitted' = NoMessage
                /\ IF IsSome(found)
                   THEN /\ BagCardinality(spawned) < MaxSpawned
                        /\ language' = found
                        /\ spawned' = BagAdd(spawned,
                               Spawn("set_locale", Unwrap(found).lang_code,
                                     IF IsSome(region) THEN Unwrap(region).lang_code
                                     ELSE Unwrap(found).lang_code,
                                     FALSE))
                   ELSE UNCHANGED << language, spawned >>
                /\ UNCHANGED panicked
    /\ UNCHANGED << context, region, available_languages, system_locales,
                    registry, add_language_search, datePage, applet_store,
                    locale1, timedate1, futures, requests, shown >>

\* Message::AddLanguageContext / Message::RegionContext
AddLanguageContext ==
    /\ ~panicked
    /\ active = "region"
    /\ context' = Some("AddLanguage")
    /\ last' = Handled("AddLanguageContext")
    /\ emitted' = OpenContextDrawer(RegionEntity)
    /\ UNCHANGED << config, language, region, available_languages,
                    system_locales, registry, expanded_source_popover,
                    add_language_search, datePage, world >>

\* RegionContext opening the region drawer with an empty search.
RegionContext_ClearsSearch ==
    /\ ~panicked
    /\ active = "region"
    /\ context' = Some("Region")
    /\ add_language_search' = EmptyString
    /\ last' = Handled("RegionContext")
    /\ emitted' = OpenContextDrawer(RegionEntity)
    /\ UNCHANGED << config, language, region, available_languages,
                    system_locales, registry, expanded_source_popover,
                    datePage, world >>

RegionContext ==
    /\ ~panicked
    /\ active = "region"
    /\ context' = Some("Region")
    /\ last' = Handled("RegionContext")
    /\ emitted' = OpenContextDrawer(RegionEntity)
    /\ UNCHANGED << config, language, region, available_languages,
                    system_locales, registry, expanded_source_popover,
                    add_language_search, datePage, world >>

\* Message::ExpandLanguagePopover(id)
ExpandLanguagePopover(id) ==
    /\ ~panicked
    /\ active = "region"
    /\ expanded_source_popover' = id
    /\ last' = Handled("ExpandLanguagePopover")
    /\ emitted' = NoMessage
    /\ UNCHANGED << config, context, language, region, available_languages,
                    system_locales, registry, add_language_search, datePage,
                    world >>

\* Message::SystemLocales(languages)
SystemLocales(languages) ==
    /\ ~panicked
    /\ active = "region"
    /\ available_languages' = languages
    /\ last' = Handled("SystemLocales")
    /\ emitted' = NoMessage
    /\ UNCHANGED << config, context, language, region, system_locales,
                    registry, expanded_source_popover, add_language_search,
                    datePage, world >>

\* Message::AddLanguageSearch(search)
AddLanguageSearch(search) ==
    /\ ~panicked
    /\ active = "region"
    /\ add_language_search' = search
    /\ last' = Handled("AddLanguageSearch")
    /\ emitted' = NoMessage
    /\ UNCHANGED << config, context, language, region, available_languages,
                    system_locales, registry, expanded_source_popover,
                    datePage, world >>

\* ------------------------------------------ Region & Language: the drawers

\* A row of a drawer's list: its text, whether it carries the accent mark,
\* and the message a press sends, if any.
Row(text, marked, on_press) ==
    [ text |-> text, marked |-> marked, on_press |-> on_press ]
Press(msg, id) == [ msg |-> msg, id |-> id ]

\* A context drawer: title, the text of its search input, and its rows.
ContextDrawer(title, header, content) ==
    [ title |-> title, header |-> header, content |-> content ]

\* let search_input = &self.add_language_search.trim().to_lowercase();
add_language_search_input == to_lowercase(trim(add_language_search))

\* is_installed that finds no language in the list.
is_installed_Never(available_language) == FALSE

is_installed(available_language) ==
    IsSome(config) /\ vec_contains(Unwrap(config), available_language.lang_code)

is_selected(locale) ==
    IsSome(region) /\ Unwrap(region).lang_code = locale.lang_code

\* The loop of add_language_view over the slot map, in key order: the rows
\* added for the keys in K.
RECURSIVE add_language_rows(_)
add_language_rows(K) ==
    IF K = {} THEN << >>
    ELSE LET id == CHOOSE k \in K : \A j \in K : j <= k
             available_language == available_languages[id]
             list == add_language_rows(K \ {id})
         IN  IF \/ add_language_search_input = EmptyString
                \/ contains(to_lowercase(available_language.display_name),
                            add_language_search_input)
             THEN Append(list,
                      Row(available_language.display_name,
                          is_installed(available_language),
                          Some(IF is_installed(available_language)
                               THEN Press("RemoveLanguage", id)
                               ELSE Press("AddLanguage", id))))
             ELSE list

add_language_view == add_language_rows(DOMAIN available_languages)

\* The loop of region_view.
RECURSIVE region_rows(_)
region_rows(K) ==
    IF K = {} THEN << >>
    ELSE LET id == CHOOSE k \in K : \A j \in K : j <= k
             locale == available_languages[id]
             list == region_rows(K \ {id})
         IN  IF \/ add_language_search_input = EmptyString
                \/ contains(to_lowercase(locale.display_name),
                            add_language_search_input)
             THEN Append(list,
                      Row(locale.region_name,
                          is_selected(locale),
                          IF is_selected(locale) THEN None
                          ELSE Some(Press("SelectRegion", id))))
             ELSE list

region_view == region_rows(DOMAIN available_languages)

\* context_drawer() showing the add-language view for either context.
Region_context_drawer_OneView ==
    IF context = None THEN None
    ELSE Some(ContextDrawer("add-language", add_language_search, add_language_view))

\* context_drawer(): the drawer of the view the page has open, if any.
Region_context_drawer ==
    IF context = None THEN None
    ELSE IF Unwrap(context) = "AddLanguage"
    THEN Some(ContextDrawer("add-language", add_language_search, add_language_view))
    ELSE Some(ContextDrawer("region", add_language_search, region_view))

\* The runtime draws the page after update(): the drawer on screen is the
\* one context_drawer() returns.
Region_view ==
    /\ ~panicked
    /\ active = "region"
    /\ drawer' = Region_context_drawer
    /\ UNCHANGED << regionPage, datePage, settings_store, applet_store,
                    locale1, timedate1, futures, requests, spawned,
                    panicked, active, last,
                    emitted >>

\* ------------------------------------------------------ Date & Time: tasks

\* The time zones timedate1 lists.
AllTimezones ==
    << << "U","T","C" >>,
       << "A","s","i","a","/","T","o","k","y","o" >>,
       << "E","u","r","o","p","e","/","P","a","r","i","s" >>,
       << "A","m","e","r","i","c","a","/","L","i","m","a" >> >>
Timezones == [ i \in 1..NumTz |-> AllTimezones[i] ]

NoInfo == [ ntp_enabled |-> FALSE, timezone_id |-> None, timezone_list |-> << >> ]

\* A future of the Date & Time page: pc "run" until its D-Bus calls are
\* made, then "deliver" with the message it resolves to.
Request(kind, pc, tz, msg, info) ==
    [ kind |-> kind, pc |-> pc, timezone |-> tz, msg |-> msg, info |-> info ]

\* The D-Bus calls of on_enter whose failure is replaced by a default.
OnEnterCalls == { "can_ntp", "ntp", "list_timezones", "timezone" }

\* on_enter's Refresh(Info); failed holds the calls that failed.
on_enter_info(failed) ==
    LET can_ntp == IF "can_ntp" \in failed THEN FALSE ELSE timedate1.can_ntp
        ntp == IF "ntp" \in failed THEN FALSE ELSE timedate1.ntp
        list == IF "list_timezones" \in failed THEN << >> ELSE Timezones
        tz == IF "timezone" \in failed THEN EmptyString ELSE timedate1.timezone
    IN  [ ntp_enabled |-> can_ntp /\ ntp,
          timezone_id |-> position(list, tz),
          timezone_list |-> list ]

\* on_enter: starts the future that reads timedate1.
Date_on_enter ==
    /\ ~panicked
    /\ active = "none"
    /\ active' = "date"
    /\ BagCardinality(requests) < MaxRequests
    /\ requests' = BagAdd(requests,
           Request("on_enter", "run", EmptyString, "", NoInfo))
    /\ last' = Handled("Date.on_enter")
    /\ emitted' = NoMessage
    /\ UNCHANGED << regionPage, datePage, settings_store, applet_store,
                    locale1, timedate1, futures, spawned, panicked, drawer >>

\* on_leave: date.rs keeps the trait's default, which does nothing.
Date_on_leave ==
    /\ ~panicked
    /\ active = "date"
    /\ active' = "none"
    /\ last' = Handled("Date.on_leave")
    /\ emitted' = NoMessage
    /\ UNCHANGED << regionPage, datePage, settings_store, applet_store,
                    locale1, timedate1, futures, requests, spawned,
                    panicked, drawer >>

\* The on_enter future runs: Error when the connection or the proxy fails,
\* Refresh(Info) otherwise.
OnEnterStep(r, connected, failed) ==
    /\ ~panicked
    /\ BagIn(r, requests)
    /\ r.kind = "on_enter" /\ r.pc = "run"
    /\ connected \/ failed = {}
    /\ requests' = BagAdd(BagRemove(requests, r),
           IF connected
           THEN [ r EXCEPT !.pc = "deliver", !.msg = "Refresh",
                           !.info = on_enter_info(failed) ]
           ELSE [ r EXCEPT !.pc = "deliver", !.msg = "Error" ])
    /\ UNCHANGED << regionPage, datePage, settings_store, applet_store,
                    locale1, timedate1, futures, spawned, panicked, shown, last,
                    emitted >>

\* The Timezone future dropping a failure instead of resolving to Error.
SetTimezoneStep_Lost(r, ok) ==
    /\ ~panicked
    /\ BagIn(r, requests)
    /\ r.kind = "Timezone" /\ r.pc = "run"
    /\ timedate1' = IF ok THEN [ timedate1 EXCEPT !.timezone = r.timezone ]
                    ELSE timedate1
    /\ requests' = IF ok
                   THEN BagAdd(BagRemove(requests, r),
                            [ r EXCEPT !.pc = "deliver", !.msg = "UpdateTime" ])
                   ELSE BagRemove(requests, r)
    /\ UNCHANGED << regionPage, datePage, settings_store, applet_store,
                    locale1, futures, spawned, panicked, shown, last,
                    emitted >>

\* The Timezone future runs: set_timezone(timezone, true) on timedate1.
SetTimezoneStep(r, ok) ==
    /\ ~panicked
    /\ BagIn(r, requests)
    /\ r.kind = "Timezone" /\ r.pc = "run"
    /\ timedate1' = IF ok THEN [ timedate1 EXCEPT !.timezone = r.timezone ]
                    ELSE timedate1
    /\ requests' = BagAdd(BagRemove(requests, r),
           [ r EXCEPT !.pc = "deliver",
                      !.msg = IF ok THEN "UpdateTime" ELSE "Error" ])
    /\ UNCHANGED << regionPage, datePage, settings_store, applet_store,
                    locale1, futures, spawned, panicked, shown, last,
                    emitted >>

\* The task set_ntp spawned runs: set_ntp(enable, true) on timedate1, which
\* a service that cannot do NTP refuses; the outcome is dropped.
SetNtpTask(t, ok) ==
    /\ ~panicked
    /\ BagIn(t, spawned)
    /\ t.kind = "set_ntp"
    /\ ok => timedate1.can_ntp
    /\ timedate1' = IF ok THEN [ timedate1 EXCEPT !.ntp = t.enable ] ELSE timedate1
    /\ spawned' = BagRemove(spawned, t)
    /\ UNCHANGED << regionPage, datePage, settings_store, applet_store,
                    locale1, futures, requests, panicked, shown, last,
                    emitted >>

\* ---------------------------------------------------- Date & Time: update()

\* The four settings the page keeps in the applet store.
formatFields == << first_day_of_week, military_time, show_seconds,
                   show_date_in_top_panel >>
timezoneFields == << ntp_enabled, timezone_context, timezone, timezone_list,
                     timezone_search >>

\* config_set writing nothing.
config_set_Skipped(key, value, ok) == applet_store

\* config_set whose write cannot fail.
config_set_Unfailing(key, value, ok) == [ applet_store EXCEPT ![key] = Some(value) ]

\* cosmic_applet_config.set(key, value): a failed write is only logged.
config_set(key, value, ok) ==
    IF ok THEN [ applet_store EXCEPT ![key] = Some(value) ] ELSE applet_store

\* Message::MilitaryTime(enable)
MilitaryTime(enable, ok) ==
    /\ ~panicked
    /\ active = "date"
    /\ military_time' = enable
    /\ applet_store' = config_set("military_time", enable, ok)
    /\ last' = Handled("MilitaryTime")
    /\ emitted' = NoMessage
    /\ UNCHANGED << first_day_of_week, show_seconds, show_date_in_top_panel,
                    timezoneFields, regionPage, settings_store, locale1,
                    timedate1, futures, requests, spawned, panicked, shown >>

\* Message::ShowSeconds(enable)
ShowSeconds(enable, ok) ==
    /\ ~panicked
    /\ active = "date"
    /\ show_seconds' = enable
    /\ applet_store' = config_set("show_seconds", enable, ok)
    /\ last' = Handled("ShowSeconds")
    /\ emitted' = NoMessage
    /\ UNCHANGED << first_day_of_week, military_time, show_date_in_top_panel,
                    timezoneFields, regionPage, settings_store, locale1,
                    timedate1, futures, requests, spawned, panicked, shown >>

\* Message::FirstDayOfWeek(weekday)
FirstDayOfWeek(weekday, ok) ==
    /\ ~panicked
    /\ active = "date"
    /\ first_day_of_week' = weekday
    /\ applet_store' = config_set("first_day_of_week", weekday, ok)
    /\ last' = Handled("FirstDayOfWeek")
    /\ emitted' = NoMessage
    /\ UNCHANGED << military_time, show_seconds, show_date_in_top_panel,
                    timezoneFields, regionPage, settings_store, locale1,
                    timedate1, futures, requests, spawned, panicked, shown >>

\* Message::ShowDate(enable)
ShowDate(enable, ok) ==
    /\ ~panicked
    /\ active = "date"
    /\ show_date_in_top_panel' = enable
    /\ applet_store' = config_set("show_date_in_top_panel", enable, ok)
    /\ last' = Handled("ShowDate")
    /\ emitted' = NoMessage
    /\ UNCHANGED << first_day_of_week, military_time, show_seconds,
                    timezoneFields, regionPage, settings_store, locale1,
                    timedate1, futures, requests, spawned, panicked, shown >>

\* The first-day-of-week dropdown: the message sent for the row picked ...
first_day_message(v) ==
    CASE v = 0 -> 4
      [] v = 1 -> 5
      [] v = 3 -> 0
      [] OTHER -> 6

\* The selected row with Monday, not Sunday, as the fallback.
first_day_selected_MondayFallback(stored) ==
    CASE stored = 4 -> 0
      [] stored = 5 -> 1
      [] stored = 6 -> 2
      [] OTHER -> 3

\* ... and the row shown as selected for a stored first_day_of_week.
first_day_selected(stored) ==
    CASE stored = 4 -> 0
      [] stored = 5 -> 1
      [] stored = 0 -> 3
      [] OTHER -> 2

\* The rows of WEEKDAYS: friday, saturday, sunday, monday.
WeekdayRows == 0..3
\* The FirstDayOfWeek messages the dropdown can send.
WeekdayChoices == { first_day_message(v) : v \in WeekdayRows }

\* TimezoneContext opening the drawer with the search text left in place.
TimezoneContext_KeepsSearch ==
    /\ ~panicked
    /\ active = "date"
    /\ timezone_context' = TRUE
    /\ last' = Handled("TimezoneContext")
    /\ emitted' = OpenContextDrawer(DateEntity)
    /\ UNCHANGED << formatFields, ntp_enabled, timezone, timezone_list,
                    timezone_search, regionPage, world >>

\* Message::TimezoneContext
TimezoneContext ==
    /\ ~panicked
    /\ active = "date"
    /\ timezone_search' = EmptyString
    /\ timezone_context' = TRUE
    /\ last' = Handled("TimezoneContext")
    /\ emitted' = OpenContextDrawer(DateEntity)
    /\ UNCHANGED << formatFields, ntp_enabled, timezone, timezone_list,
                    regionPage, world >>

\* Message::TimezoneSearch(text)
TimezoneSearch(text) ==
    /\ ~panicked
    /\ active = "date"
    /\ timezone_search' = text
    /\ last' = Handled("TimezoneSearch")
    /\ emitted' = NoMessage
    /\ UNCHANGED << formatFields, ntp_enabled, timezone_context, timezone,
                    timezone_list, regionPage, world >>

\* Message::Timezone(timezone_id): the index is stored before it is looked
\* up; a request is started only for an index of the list.
Timezone(timezone_id) ==
    /\ ~panicked
    /\ active = "date"
    /\ timezone' = Some(timezone_id)
    /\ last' = Handled("Timezone")
    /\ emitted' = NoMessage
    /\ IF IsSome(get(timezone_list, timezone_id))
       THEN /\ BagCardinality(requests) < MaxRequests
            /\ requests' = BagAdd(requests,
                   Request("Timezone", "run",
                           Unwrap(get(timezone_list, timezone_id)), "", NoInfo))
       ELSE UNCHANGED requests
    /\ UNCHANGED << formatFields, ntp_enabled, timezone_context,
                    timezone_list, timezone_search, regionPage,
                    settings_store, applet_store, locale1, timedate1,
                    futures, spawned, panicked, shown >>

\* Message::Error(why) putting back the index of the service's time zone.
Error_Reverting(r) ==
    /\ ~panicked
    /\ BagIn(r, requests)
    /\ r.pc = "deliver" /\ r.msg = "Error"
    /\ requests' = BagRemove(requests, r)
    /\ timezone_context' = FALSE
    /\ timezone' = position(timezone_list, timedate1.timezone)
    /\ last' = Handled("Error")
    /\ emitted' = CloseContextDrawer
    /\ UNCHANGED << formatFields, ntp_enabled, timezone_list,
                    timezone_search, regionPage, settings_store,
                    applet_store, locale1, timedate1, futures, spawned,
                    panicked, shown >>

\* Message::Error(why), delivered by a future
Error(r) ==
    /\ ~panicked
    /\ BagIn(r, requests)
    /\ r.pc = "deliver" /\ r.msg = "Error"
    /\ requests' = BagRemove(requests, r)
    /\ timezone_context' = FALSE
    /\ last' = Handled("Error")
    /\ emitted' = CloseContextDrawer
    /\ UNCHANGED << formatFields, ntp_enabled, timezone, timezone_list,
                    timezone_search, regionPage, settings_store,
                    applet_store, locale1, timedate1, futures, spawned,
                    panicked, shown >>

\* Message::UpdateTime, delivered by a Timezone future: set_ntp(true) sets
\* ntp_enabled and spawns the task that calls the service.
UpdateTime(r) ==
    /\ ~panicked
    /\ BagIn(r, requests)
    /\ r.pc = "deliver" /\ r.msg = "UpdateTime"
    /\ BagCardinality(spawned) < MaxSpawned
    /\ requests' = BagRemove(requests, r)
    /\ ntp_enabled' = TRUE
    /\ spawned' = BagAdd(spawned, Spawn("set_ntp", "", "", TRUE))
    /\ timezone_context' = FALSE
    /\ last' = Handled("UpdateTime")
    /\ emitted' = CloseContextDrawer
    /\ UNCHANGED << formatFields, timezone, timezone_list, timezone_search,
                    regionPage, settings_store, applet_store, locale1,
                    timedate1, futures, panicked, shown >>

\* Message::Refresh(info), delivered by the on_enter future
Date_Refresh(r) ==
    /\ ~panicked
    /\ BagIn(r, requests)
    /\ r.pc = "deliver" /\ r.msg = "Refresh"
    /\ requests' = BagRemove(requests, r)
    /\ ntp_enabled' = r.info.ntp_enabled
    /\ timezone_list' = r.info.timezone_list
    /\ timezone' = r.info.timezone_id
    /\ last' = Handled("Date.Refresh")
    /\ emitted' = NoMessage
    /\ UNCHANGED << formatFields, timezone_context, timezone_search,
                    regionPage, settings_store, applet_store, locale1,
                    timedate1, futures, spawned, panicked, shown >>

\* Message::Surface(a): handed on to the application.
Date_Surface ==
    /\ ~panicked
    /\ active = "date"
    /\ last' = Handled("Surface")
    /\ emitted' = AppMessage("Surface", "")
    /\ UNCHANGED << regionPage, datePage, world >>

\* Message::None
Date_None ==
    /\ ~panicked
    /\ active = "date"
    /\ last' = Handled("None")
    /\ emitted' = NoMessage
    /\ UNCHANGED << regionPage, datePage, world >>

\* ------------------------------------------------ Date & Time: the drawer

\* let search_input = &self.timezone_search.trim().to_lowercase();
timezone_search_input == to_lowercase(trim(timezone_search))

timezone_context_item(id, tz) == Row(tz, FALSE, Some(Press("Timezone", id)))

\* The loop of timezone_context_view numbering the rows it adds.
RECURSIVE timezone_context_rows_Renumbered(_)
timezone_context_rows_Renumbered(n) ==
    IF n = 0 THEN << >>
    ELSE LET tz == timezone_list[n]
             list == timezone_context_rows_Renumbered(n - 1)
         IN  IF \/ timezone_search_input = EmptyString
                \/ contains(to_lowercase(tz), timezone_search_input)
             THEN Append(list, timezone_context_item(Len(list), tz))
             ELSE list

\* The loop of timezone_context_view: the rows added for the first n
\* entries of timezone_list.
RECURSIVE timezone_context_rows(_)
timezone_context_rows(n) ==
    IF n = 0 THEN << >>
    ELSE LET id == n - 1
             tz == timezone_list[n]
             list == timezone_context_rows(n - 1)
         IN  IF \/ timezone_search_input = EmptyString
                \/ contains(to_lowercase(tz), timezone_search_input)
             THEN Append(list, timezone_context_item(id, tz))
             ELSE list

timezone_context_view == timezone_context_rows(Len(timezone_list))

\* context_drawer() giving the drawer whatever timezone_context is.
Date_context_drawer_Always ==
    Some(ContextDrawer("time-zone", timezone_search, timezone_context_view))

\* context_drawer(): the time-zone drawer while timezone_context is set.
Date_context_drawer ==
    IF timezone_context
    THEN Some(ContextDrawer("time-zone", timezone_search, timezone_context_view))
    ELSE None

\* The runtime draws the page after update().
Date_view ==
    /\ ~panicked
    /\ active = "date"
    /\ drawer' = Date_context_drawer
    /\ UNCHANGED << regionPage, datePage, settings_store, applet_store,
                    locale1, timedate1, futures, requests, spawned,
                    panicked, active, last,
                    emitted >>

\* ------------------------------------------------------------ construction

\* The locale of the process environment (LC_TIME, else LANG), which the
\* Date & Time page reads for its defaults; "C" does not parse as a locale.
ProcessLocales == Codes \cup { "C" }

\* get_locale_default_24h / get_locale_default_first_day: the same ICU data
\* as get_default_24h / get_default_first_day, for the process locale.
get_locale_default_24h(env) == get_default_24h(env)
get_locale_default_first_day(env) == get_default_first_day(env)

NoAppletStore ==
    [ military_time |-> None, show_seconds |-> None,
      first_day_of_week |-> None, show_date_in_top_panel |-> None ]

\* Page::default() writing the constant of a missing show_seconds as well.
DatePageDefault_WritesAll(store, env, ok1, ok2) ==
    LET mt == IF IsSome(store.military_time) THEN Unwrap(store.military_time)
              ELSE get_locale_default_24h(env)
        fd == IF IsSome(store.first_day_of_week) THEN Unwrap(store.first_day_of_week)
              ELSE get_locale_default_first_day(env)
    IN  [ military_time |-> mt,
          show_seconds |-> IF IsSome(store.show_seconds)
                           THEN Unwrap(store.show_seconds) ELSE FALSE,
          first_day_of_week |-> fd,
          show_date_in_top_panel |-> IF IsSome(store.show_date_in_top_panel)
                                     THEN Unwrap(store.show_date_in_top_panel)
                                     ELSE TRUE,
          store |-> [ store EXCEPT
                        !.military_time =
                            IF ~IsSome(@) /\ ok1 THEN Some(mt) ELSE @,
                        !.first_day_of_week =
                            IF ~IsSome(@) /\ ok2 THEN Some(fd) ELSE @,
                        !.show_seconds =
                            IF ~IsSome(@) THEN Some(FALSE) ELSE @ ] ]

\* impl Default for date::Page: a missing military_time or first_day_of_week
\* takes the locale default, which is written back (ok1, ok2: the write
\* succeeded); a missing show_seconds or show_date_in_top_panel takes a
\* constant and is not written.
DatePageDefault(store, env, ok1, ok2) ==
    LET mt == IF IsSome(store.military_time) THEN Unwrap(store.military_time)
              ELSE get_locale_default_24h(env)
        fd == IF IsSome(store.first_day_of_week) THEN Unwrap(store.first_day_of_week)
              ELSE get_locale_default_first_day(env)
    IN  [ military_time |-> mt,
          show_seconds |-> IF IsSome(store.show_seconds)
                           THEN Unwrap(store.show_seconds) ELSE FALSE,
          first_day_of_week |-> fd,
          show_date_in_top_panel |-> IF IsSome(store.show_date_in_top_panel)
                                     THEN Unwrap(store.show_date_in_top_panel)
                                     ELSE TRUE,
          store |-> [ store EXCEPT
                        !.military_time =
                            IF ~IsSome(@) /\ ok1 THEN Some(mt) ELSE @,
                        !.first_day_of_week =
                            IF ~IsSome(@) /\ ok2 THEN Some(fd) ELSE @ ] ]

\* The Date & Time page and the applet store after Page::default().
InitDatePage(store, env, ok1, ok2) ==
    LET page == DatePageDefault(store, env, ok1, ok2)
    IN  /\ first_day_of_week = page.first_day_of_week
        /\ military_time = page.military_time
        /\ show_seconds = page.show_seconds
        /\ show_date_in_top_panel = page.show_date_in_top_panel
        /\ applet_store = page.store
        /\ ntp_enabled = FALSE
        /\ timezone = None
        /\ timezone_context = FALSE
        /\ timezone_list = << >>
        /\ timezone_search = EmptyString

\* The Region & Language page after Page::default() (#[derive(Default)]).
InitRegionPage ==
    /\ config = None
    /\ context = None
    /\ language = None
    /\ region = None
    /\ available_languages = EmptySlotMap
    /\ system_locales = NoSystemLocales
    /\ registry = None
    /\ expanded_source_popover = None
    /\ add_language_search = EmptyString

\* The preferred-language list as the settings store holds it when the
\* application starts: never written, or every locale in listing order.
InitialSettingsStores == { None, Some([ i \in 1..NumLangs |-> AllCodes[i] ]) }

\* No task is running, nothing was rendered, no message was handled.
InitTasks ==
    /\ futures = EmptyBag
    /\ requests = EmptyBag
    /\ spawned = EmptyBag
    /\ panicked = FALSE
    /\ drawer = << >>
    /\ active = "none"
    /\ last = Handled("new")
    /\ emitted = NoMessage

\* The system at start: LANG is the first locale and no LC_* is set; the
\* first time zone is selected.
InitSystem ==
    /\ locale1 = [ LANG |-> Some(AllCodes[1]), LC_TIME |-> None ]
    /\ timedate1 \in [ timezone : { Timezones[1] }, ntp : BOOLEAN, can_ntp : BOOLEAN ]

\* ------------------------------------------- the preferred-language list

\* A first start on a system that never stored a time setting.
InitLanguages ==
    /\ InitRegionPage
    /\ InitDatePage(NoAppletStore, AllCodes[1], TRUE, TRUE)
    /\ settings_store \in InitialSettingsStores
    /\ InitTasks
    /\ locale1 = [ LANG |-> Some(AllCodes[1]), LC_TIME |-> None ]
    /\ timedate1 = [ timezone |-> Timezones[1], ntp |-> TRUE, can_ntp |-> TRUE ]

RegionFutures == BagToSet(futures)
SpawnedTasks == BagToSet(spawned)
PopoverIds == { None } \cup { Some(i) : i \in Indices }

\* The preferred-language list.  The set_locale task a message spawned runs
\* before the next message is handled: the list does not depend on it.
NextLanguages ==
    \/ Region_on_enter
    \/ \E f \in RegionFutures, reload_ok, config_ok \in BOOLEAN :
          PageReloadStep(f, reload_ok, config_ok)
    \/ \E f \in RegionFutures : Region_Refresh(f)
    \/ \E id \in Keys, ok \in BOOLEAN :
          spawned = EmptyBag /\ AddLanguage(id, ok)
    \/ \E id \in Keys, ok \in BOOLEAN :
          spawned = EmptyBag /\ RemoveLanguage(id, ok)
    \/ \E kind \in SourceContextKinds, id \in Indices, ok \in BOOLEAN :
          spawned = EmptyBag /\ SourceContext(kind, id, ok)
    \/ \E t \in SpawnedTasks, ok \in BOOLEAN : SetLocaleTask(t, ok)

SpecLanguages == InitLanguages /\ [][NextLanguages]_vars

\* The preferred-language list of the page, when a config is present.
Locales == Unwrap(config)

SameMultiset(a, b) ==
    \A c \in Codes : Cardinality({ k \in 1..Len(a) : a[k] = c })
                       = Cardinality({ k \in 1..Len(b) : b[k] = c })

\* b is a with the entries at the 0-based indices i and j exchanged.
Exchanged(a, b, i, j) ==
    /\ Len(b) = Len(a)
    /\ b[i + 1] = a[j + 1]
    /\ b[j + 1] = a[i + 1]
    /\ \A k \in 1..Len(a) : (k # i + 1 /\ k # j + 1) => b[k] = a[k]

MoveUpHandled(id) == \E ok \in BOOLEAN : SourceContext("MoveUp", id, ok)
MoveDownHandled(id) == \E ok \in BOOLEAN : SourceContext("MoveDown", id, ok)
RemoveHandled(id) == \E ok \in BOOLEAN : SourceContext("Remove", id, ok)

\* C1: with a config present, MoveUp(i) with 0 < i < len exchanges entries i
\* and i-1 and MoveUp(0) leaves the list as it is; MoveDown(i) with
\* i+1 < len exchanges entries i and i+1 and MoveDown(i) with i+1 >= len
\* leaves the list as it is; in each of these cases the list keeps its
\* length and its multiset of entries.
C1_MoveSwapsNeighbours ==
    [][ \A id \in Indices :
          /\ (IsSome(config) /\ MoveUpHandled(id) /\ 0 < id /\ id < Len(Locales))
                => /\ Exchanged(Locales, Locales', id, id - 1)
                   /\ SameMultiset(Locales, Locales')
          /\ (IsSome(config) /\ MoveUpHandled(id) /\ id = 0)
                => Locales' = Locales
          /\ (IsSome(config) /\ MoveDownHandled(id) /\ id + 1 < Len(Locales))
                => /\ Exchanged(Locales, Locales', id, id + 1)
                   /\ SameMultiset(Locales, Locales')
          /\ (IsSome(config) /\ MoveDownHandled(id) /\ id + 1 >= Len(Locales))
                => Locales' = Locales
      ]_vars

\* A MoveUp was handled and the list is the stored start list with its two
\* first entries exchanged.
C1_Witness ==
    /\ last = "MoveUp"
    /\ IsSome(config)
    /\ Len(Locales) >= 2
    /\ Locales[1] = AllCodes[2]
    /\ Locales[2] = AllCodes[1]

C3_SourceContextNeverPanics ==
    last \in SourceContextKinds => ~panicked

\* C4: when update() handled AddLanguage, RemoveLanguage or a SourceContext
\* message that changed the list, with a config present and the write
\* succeeding, the stored system_locales is the list of the page.
C4_StoreFollowsList ==
    [][ \A id \in Keys \cup Indices, kind \in SourceContextKinds :
          ( /\ \/ AddLanguage(id, TRUE)
               \/ RemoveLanguage(id, TRUE)
               \/ SourceContext(kind, id, TRUE)
            /\ IsSome(config)
            /\ config' # config )
          => settings_store' = config'
      ]_vars

\* A RemoveLanguage was handled, the list lost its first start entry and
\* the store holds the same list.
C4_Witness ==
    /\ last = "RemoveLanguage"
    /\ config = Some(<< AllCodes[2] >>)
    /\ settings_store = config

\* ------------------------------------------------ set_locale tasks in flight

\* The list is not empty and its first entry is an available language.
FirstEntryAvailable ==
    /\ ~panicked
    /\ IsSome(config)
    /\ Locales # << >>
    /\ IsSome(FindLanguage(Locales[1]))

\* SourceContext messages that each leave a non-empty list whose first
\* entry is available, with every reload, write and localectl call
\* succeeding; the spawned set_locale tasks run whenever they are scheduled.
NextLocaleTasks ==
    \/ Region_on_enter
    \/ \E f \in RegionFutures : PageReloadStep(f, TRUE, TRUE)
    \/ \E f \in RegionFutures : Region_Refresh(f)
    \/ \E kind \in SourceContextKinds, id \in Indices :
          SourceContext(kind, id, TRUE) /\ FirstEntryAvailable'
    \/ \E t \in SpawnedTasks : SetLocaleTask(t, TRUE)

SpecLocaleTasks == InitLanguages /\ [][NextLocaleTasks]_vars

\* C8: after SourceContext messages, once every spawned set_locale task has
\* run, the system LANG is the first entry of the preferred-language list.
C8_LangIsFirstEntry ==
    (last \in SourceContextKinds /\ spawned = EmptyBag)
        => locale1.LANG = Some(Locales[1])

\* --------------------------------------------------- the format settings

\* The applet store when the application starts: each key is missing or
\* holds a value an earlier session stored.
InitialAppletStores ==
    [ military_time : { None, Some(TRUE) },
      show_seconds : { None, Some(TRUE) },
      first_day_of_week : { None, Some(0) },
      show_date_in_top_panel : { None, Some(FALSE) } ]

\* Page::default() ran: write_ok tells whether its writes may fail.
InitConstructed(may_fail) ==
    /\ \E store \in InitialAppletStores, env \in ProcessLocales,
          ok1, ok2 \in BOOLEAN :
          /\ (IsSome(store.military_time) \/ ~may_fail) => ok1
          /\ (IsSome(store.first_day_of_week) \/ ~may_fail) => ok2
          /\ InitDatePage(store, env, ok1, ok2)
    /\ InitRegionPage
    /\ settings_store = None
    /\ InitTasks
    /\ locale1 = [ LANG |-> Some(AllCodes[1]), LC_TIME |-> None ]
    /\ timedate1 = [ timezone |-> Timezones[1], ntp |-> TRUE, can_ntp |-> TRUE ]

InitFormat == InitConstructed(TRUE)

DateRequests == BagToSet(requests)

\* The Date & Time page is opened and its four settings are changed; every
\* write may fail.
NextFormat ==
    \/ Date_on_enter
    \/ \E r \in DateRequests, connected \in BOOLEAN : OnEnterStep(r, connected, {})
    \/ \E r \in DateRequests : Date_Refresh(r)
    \/ \E r \in DateRequests : Error(r)
    \/ \E enable, ok \in BOOLEAN : MilitaryTime(enable, ok)
    \/ \E enable, ok \in BOOLEAN : ShowSeconds(enable, ok)
    \/ \E weekday \in WeekdayChoices, ok \in BOOLEAN : FirstDayOfWeek(weekday, ok)
    \/ \E enable, ok \in BOOLEAN : ShowDate(enable, ok)

SpecFormat == InitFormat /\ [][NextFormat]_vars

\* The four keys of the applet store other than key are as they were.
OtherKeysUnchanged(key) ==
    \A k \in DOMAIN applet_store \ {key} : applet_store'[k] = applet_store[k]

\* C5: MilitaryTime(b), ShowSeconds(b), ShowDate(b) and FirstDayOfWeek(d)
\* each set their field to the message's value and, when the write succeeds,
\* the key of the same name to that value; the other three fields and the
\* other three keys are as before.
C5_FormatMessageSetsOneField ==
    [][ /\ \A b, ok \in BOOLEAN :
             /\ MilitaryTime(b, ok) =>
                   /\ military_time' = b
                   /\ ok => applet_store'.military_time = Some(b)
                   /\ UNCHANGED << show_seconds, show_date_in_top_panel,
                                   first_day_of_week >>
                   /\ OtherKeysUnchanged("military_time")
             /\ ShowSeconds(b, ok) =>
                   /\ show_seconds' = b
                   /\ ok => applet_store'.show_seconds = Some(b)
                   /\ UNCHANGED << military_time, show_date_in_top_panel,
                                   first_day_of_week >>
                   /\ OtherKeysUnchanged("show_seconds")
             /\ ShowDate(b, ok) =>
                   /\ show_date_in_top_panel' = b
                   /\ ok => applet_store'.show_date_in_top_panel = Some(b)
                   /\ UNCHANGED << military_time, show_seconds,
                                   first_day_of_week >>
                   /\ OtherKeysUnchanged("show_date_in_top_panel")
        /\ \A d \in WeekdayChoices, ok \in BOOLEAN :
             FirstDayOfWeek(d, ok) =>
                /\ first_day_of_week' = d
                /\ ok => applet_store'.first_day_of_week = Some(d)
                /\ UNCHANGED << military_time, show_seconds,
                                show_date_in_top_panel >>
                /\ OtherKeysUnchanged("first_day_of_week")
      ]_vars

\* FirstDayOfWeek(4) was handled: the field and the key hold Friday, which
\* is no locale's default and no stored start value.
C5_Witness ==
    /\ last = "FirstDayOfWeek"
    /\ first_day_of_week = 4
    /\ applet_store.first_day_of_week = Some(4)

\* ------------------------------------------- a region change and the formats

InitRegionChange == InitConstructed(FALSE)

\* Both pages are visited in turn; every write and every call succeeds.
NextRegionChange ==
    \/ Date_on_enter
    \/ Date_on_leave
    \/ \E r \in DateRequests : OnEnterStep(r, TRUE, {})
    \/ \E r \in DateRequests : Date_Refresh(r)
    \/ \E enable \in BOOLEAN : MilitaryTime(enable, TRUE)
    \/ \E weekday \in WeekdayChoices : FirstDayOfWeek(weekday, TRUE)
    \/ Region_on_enter
    \/ Region_on_leave
    \/ \E f \in RegionFutures : PageReloadStep(f, TRUE, TRUE)
    \/ \E f \in RegionFutures : Region_Refresh(f)
    \/ \E id \in Keys : SelectRegion(id)
    \/ \E f \in RegionFutures : SelectRegionSetLocale(f, TRUE)
    \/ \E f \in RegionFutures : SelectRegionTimeSettings(f, TRUE, TRUE, TRUE)

SpecRegionChange == InitRegionChange /\ [][NextRegionChange]_vars

\* C6: the page's military_time and first_day_of_week are the values the
\* applet store holds under those keys, in every state after construction
\* with all writes succeeding, whatever the two pages handled.
C6_FormatsEqualStore ==
    /\ applet_store.military_time = Some(military_time)
    /\ applet_store.first_day_of_week = Some(first_day_of_week)

\* -------------------------------------------------- choosing a time zone

\* The list indices the drawer can send once the list is loaded.
ListedTimezones == { i \in 0..(NumTz - 1) : InBounds(timezone_list, i) }

\* The Date & Time page is opened, timedate1 answers every call of on_enter,
\* and time zones are picked from the drawer; a set_timezone call may fail.
NextTimezone ==
    \/ Date_on_enter
    \/ \E r \in DateRequests : OnEnterStep(r, TRUE, {})
    \/ \E r \in DateRequests : Date_Refresh(r)
    \/ TimezoneContext
    \/ \E i \in ListedTimezones : Timezone(i)
    \/ \E r \in DateRequests, ok \in BOOLEAN : SetTimezoneStep(r, ok)
    \/ \E r \in DateRequests : UpdateTime(r)
    \/ \E r \in DateRequests : Error(r)
    \/ \E t \in SpawnedTasks, ok \in BOOLEAN : SetNtpTask(t, ok)

SpecTimezone == InitLanguages /\ [][NextTimezone]_vars

\* Every request a Timezone message started has delivered its message.
NoTimezoneRequest == \A r \in DateRequests : r.kind # "Timezone"

\* C7: with no set-timezone request outstanding, the entry of timezone_list
\* the page shows as selected is the time zone of timedate1.
C7_SelectedIsSystemTimezone ==
    (last \in { "UpdateTime", "Error" } /\ NoTimezoneRequest)
        => get(timezone_list, Unwrap(timezone)) = Some(timedate1.timezone)

\* ------------------------------------------------------ the time-zone drawer

\* The messages the rows of the drawer on screen send when pressed.
DrawerPresses ==
    IF drawer = None THEN {}
    ELSE { Unwrap(Unwrap(drawer).content[k].on_press) :
             k \in { j \in 1..Len(Unwrap(drawer).content) :
                        IsSome(Unwrap(drawer).content[j].on_press) } }

\* What is typed into the drawer's search input.
TimezoneSearches ==
    { EmptyString, << " " >>, << " ", "T", "O", " " >>, << "u" >>, << "x" >> }

\* The user acts on what is on screen, once the requests started earlier
\* are through: the drawer was drawn after the last update().
DateDrawn ==
    /\ drawer = Date_context_drawer
    /\ requests = EmptyBag
    /\ spawned = EmptyBag

NextTimezoneDrawer ==
    \/ Date_on_enter
    \/ \E r \in DateRequests : OnEnterStep(r, TRUE, {})
    \/ \E r \in DateRequests : Date_Refresh(r)
    \/ DateDrawn /\ TimezoneContext
    \/ \E text \in TimezoneSearches :
          DateDrawn /\ drawer # None /\ TimezoneSearch(text)
    \/ Date_view
    \/ \E m \in DrawerPresses : DateDrawn /\ Timezone(m.id)
    \/ \E r \in DateRequests, ok \in BOOLEAN : SetTimezoneStep(r, ok)
    \/ \E r \in DateRequests : UpdateTime(r)
    \/ \E r \in DateRequests : Error(r)
    \/ \E t \in SpawnedTasks : SetNtpTask(t, TRUE)

SpecTimezoneDrawer == InitLanguages /\ [][NextTimezoneDrawer]_vars

\* The indices of the entries of timezone_list that match the search.
TimezoneMatches ==
    LET wanted == to_lowercase(trim(timezone_search))
    IN  { i \in 0..(Len(timezone_list) - 1) :
            \/ wanted = EmptyString
            \/ contains(to_lowercase(timezone_list[i + 1]), wanted) }

TimezoneRowsAsListed(rows) ==
    /\ Len(rows) = Cardinality(TimezoneMatches)
    /\ \A k \in 1..Len(rows) :
          /\ IsSome(rows[k].on_press)
          /\ Unwrap(rows[k].on_press).msg = "Timezone"
          /\ Unwrap(rows[k].on_press).id \in TimezoneMatches
          /\ rows[k].text = timezone_list[Unwrap(rows[k].on_press).id + 1]
    /\ \A j, k \in 1..Len(rows) :
          j < k => Unwrap(rows[j].on_press).id < Unwrap(rows[k].on_press).id

\* C9: the time-zone drawer, when drawn, lists exactly the entries of
\* timezone_list whose lower-cased name contains the trimmed, lower-cased
\* search (all of them when that is empty), in list order, and each row
\* sends Timezone(i) with i its index in timezone_list.
C9_TimezoneDrawerListsMatches ==
    [][ (Date_view /\ timezone_context)
            => TimezoneRowsAsListed(Unwrap(drawer').content) ]_vars

\* The drawer drawn for the search " TO ": one row, the second time zone,
\* sending Timezone(1).
C9_Witness ==
    /\ drawer # None
    /\ Unwrap(drawer).header = << " ", "T", "O", " " >>
    /\ Unwrap(drawer).content =
           << Row(Timezones[2], FALSE, Some(Press("Timezone", 1))) >>

\* ------------------------------------ the add-language and region drawers

LanguageSearches ==
    { EmptyString, << " " >>, << " ", "G", "E", "R", " " >>, << "e", "n" >> }

\* The user acts on what is on screen, once the futures started earlier are
\* through.
RegionDrawn ==
    /\ drawer = Region_context_drawer
    /\ futures = EmptyBag

NextLanguageDrawers ==
    \/ Region_on_enter
    \/ \E f \in RegionFutures : PageReloadStep(f, TRUE, TRUE)
    \/ \E f \in RegionFutures : Region_Refresh(f)
    \/ RegionDrawn /\ AddLanguageContext
    \/ RegionDrawn /\ RegionContext
    \/ \E search \in LanguageSearches :
          RegionDrawn /\ drawer # None /\ AddLanguageSearch(search)
    \/ Region_view
    \/ \E m \in DrawerPresses :
          RegionDrawn /\ m.msg = "AddLanguage" /\ AddLanguage(m.id, TRUE)
    \/ \E m \in DrawerPresses :
          RegionDrawn /\ m.msg = "RemoveLanguage" /\ RemoveLanguage(m.id, TRUE)
    \/ \E m \in DrawerPresses :
          RegionDrawn /\ m.msg = "SelectRegion" /\ SelectRegion(m.id)
    \/ \E f \in RegionFutures : SelectRegionSetLocale(f, TRUE)
    \/ \E f \in RegionFutures : SelectRegionTimeSettings(f, TRUE, TRUE, TRUE)

SpecLanguageDrawers == InitLanguages /\ [][NextLanguageDrawers]_vars

\* The keys of the available languages that match the search.
LanguageMatches ==
    LET wanted == to_lowercase(trim(add_language_search))
    IN  { id \in DOMAIN available_languages :
            \/ wanted = EmptyString
            \/ contains(to_lowercase(available_languages[id].display_name), wanted) }

InPreferredList(code) ==
    config # None /\ \E k \in 1..Len(Locales) : Locales[k] = code

AddLanguageRowsAsListed(rows) ==
    /\ Len(rows) = Cardinality(LanguageMatches)
    /\ \A id \in LanguageMatches :
          \E k \in 1..Len(rows) :
             /\ rows[k].text = available_languages[id].display_name
             /\ rows[k].on_press =
                  Some(IF InPreferredList(available_languages[id].lang_code)
                       THEN Press("RemoveLanguage", id)
                       ELSE Press("AddLanguage", id))

RegionRowsAsListed(rows) ==
    /\ Len(rows) = Cardinality(LanguageMatches)
    /\ \A id \in LanguageMatches :
          \E k \in 1..Len(rows) :
             /\ rows[k].text = available_languages[id].region_name
             /\ rows[k].on_press =
                  IF region # None
                     /\ Unwrap(region).lang_code = available_languages[id].lang_code
                  THEN None
                  ELSE Some(Press("SelectRegion", id))

\* C10: the add-language drawer and the region drawer, when drawn, list
\* exactly the available languages whose lower-cased display_name contains
\* the trimmed, lower-cased add_language_search (all when that is empty); an
\* add-language row sends RemoveLanguage(id) if the language is in the
\* preferred list and AddLanguage(id) otherwise; the region row of the
\* current region sends nothing and every other row sends SelectRegion(id).
C10_LanguageDrawersListMatches ==
    [][ (Region_view /\ context # None)
            => IF Unwrap(context) = "AddLanguage"
               THEN AddLanguageRowsAsListed(Unwrap(drawer').content)
               ELSE RegionRowsAsListed(Unwrap(drawer').content) ]_vars

\* The add-language drawer drawn for the search " GER " after German was
\* added to the preferred list: one row, which sends RemoveLanguage.
C10_Witness ==
    /\ drawer # None
    /\ Unwrap(drawer).title = "add-language"
    /\ Unwrap(drawer).header = << " ", "G", "E", "R", " " >>
    /\ Len(Unwrap(drawer).content) = 1
    /\ Unwrap(drawer).content[1].text = localized_locale(AllCodes[2]).display_name
    /\ Unwrap(Unwrap(drawer).content[1].on_press).msg = "RemoveLanguage"

\* ------------------------------------- when the time-zone drawer is shown

\* Every message of the Date & Time page, sent from what is on screen.
NextDateDrawer ==
    \/ Date_on_enter
    \/ \E r \in DateRequests, connected \in BOOLEAN : OnEnterStep(r, connected, {})
    \/ \E r \in DateRequests : Date_Refresh(r)
    \/ DateDrawn /\ TimezoneContext
    \/ \E text \in { << "u" >> } :
          DateDrawn /\ drawer # None /\ TimezoneSearch(text)
    \/ Date_view
    \/ \E m \in DrawerPresses : DateDrawn /\ Timezone(m.id)
    \/ \E r \in DateRequests, ok \in BOOLEAN : SetTimezoneStep(r, ok)
    \/ \E r \in DateRequests : UpdateTime(r)
    \/ \E r \in DateRequests : Error(r)
    \/ \E t \in SpawnedTasks : SetNtpTask(t, TRUE)
    \/ DateDrawn /\ MilitaryTime(TRUE, TRUE)
    \/ DateDrawn /\ ShowSeconds(TRUE, TRUE)
    \/ DateDrawn /\ FirstDayOfWeek(0, TRUE)
    \/ DateDrawn /\ ShowDate(FALSE, TRUE)
    \/ DateDrawn /\ Date_Surface
    \/ DateDrawn /\ Date_None

SpecDateDrawer == InitLanguages /\ [][NextDateDrawer]_vars

\* C11: context_drawer() gives a drawer exactly when timezone_context is
\* set; timezone_context is unset after construction, is set only by
\* TimezoneContext, which sends OpenContextDrawer for the page's entity, and
\* is unset only by UpdateTime or Error, which send CloseContextDrawer.
C11_DrawerFollowsTimezoneContext ==
    /\ ~timezone_context
    /\ [][ /\ Date_view => ((drawer' # None) <=> timezone_context)
           /\ TimezoneContext =>
                 timezone_context' /\ emitted' = OpenContextDrawer(DateEntity)
           /\ ((\E r \in DateRequests : UpdateTime(r))
                 \/ (\E r \in DateRequests : Error(r))) =>
                 ~timezone_context' /\ emitted' = CloseContextDrawer
           /\ (~timezone_context /\ timezone_context') => TimezoneContext
           /\ (timezone_context /\ ~timezone_context') =>
                 \/ \E r \in DateRequests : UpdateTime(r)
                 \/ \E r \in DateRequests : Error(r)
         ]_vars

\* The drawer was opened, the second time zone was picked, UpdateTime closed
\* the drawer and the page was drawn without it.
C11_Witness ==
    /\ last = "UpdateTime"
    /\ emitted = CloseContextDrawer
    /\ ~timezone_context
    /\ timezone = Some(1)
    /\ drawer = None

\* ------------------------------- when the Region & Language drawers are shown

\* The slot map a SystemLocales message can carry.
SystemLocalesChoices == { SlotMapOf(<< localized_locale(AllCodes[1]) >>) }

\* The user acts on what is on screen once earlier tasks are through.
RegionQuiet == RegionDrawn /\ spawned = EmptyBag

\* Every message of the Region & Language page; the page is left and opened
\* again.
\* A row is pressed in a drawer after a search was typed.
RegionFiltered == RegionQuiet /\ add_language_search # EmptyString

NextRegionDrawer ==
    \/ Region_on_enter
    \/ RegionQuiet /\ Region_on_leave
    \/ \E f \in RegionFutures : PageReloadStep(f, TRUE, TRUE)
    \/ \E f \in RegionFutures : Region_Refresh(f)
    \/ RegionQuiet /\ AddLanguageContext
    \/ RegionQuiet /\ RegionContext
    \/ \E search \in { << "g" >> } :
          RegionQuiet /\ drawer # None /\ AddLanguageSearch(search)
    \/ Region_view
    \/ \E m \in DrawerPresses :
          RegionFiltered /\ m.msg = "AddLanguage" /\ AddLanguage(m.id, TRUE)
    \/ \E m \in DrawerPresses :
          RegionFiltered /\ m.msg = "RemoveLanguage" /\ RemoveLanguage(m.id, TRUE)
    \/ \E m \in DrawerPresses :
          RegionFiltered /\ m.msg = "SelectRegion" /\ SelectRegion(m.id)
    \/ \E f \in RegionFutures : SelectRegionSetLocale(f, TRUE)
    \/ \E f \in RegionFutures : SelectRegionTimeSettings(f, TRUE, TRUE, TRUE)
    \/ \E kind \in SourceContextKinds :
          RegionQuiet /\ config # None /\ Locales # << >>
             /\ SourceContext(kind, 0, TRUE)
    \/ \E t \in SpawnedTasks : SetLocaleTask(t, TRUE)
    \/ RegionQuiet /\ context # None /\ ExpandLanguagePopover(Some(0))
    \/ RegionQuiet /\ InstallAdditionalLanguages
    \/ \E f \in RegionFutures : InstallToolStep(f)
    \/ \E languages \in SystemLocalesChoices :
          RegionQuiet /\ context = None /\ SystemLocales(languages)

SpecRegionDrawer == InitLanguages /\ [][NextRegionDrawer]_vars

\* C12: context_drawer() gives a drawer exactly when context is set, the
\* add-language view or the region view according to it; AddLanguageContext
\* and RegionContext set it and send OpenContextDrawer for the page's
\* entity; no other message changes it and only on_leave unsets it.
C12_DrawerFollowsContext ==
    /\ context = None
    /\ [][ /\ Region_view =>
                 /\ (drawer' # None) <=> (context # None)
                 /\ context = Some("AddLanguage") =>
                       Unwrap(drawer') = ContextDrawer("add-language",
                           add_language_search, add_language_view)
                 /\ context = Some("Region") =>
                       Unwrap(drawer') = ContextDrawer("region",
                           add_language_search, region_view)
           /\ AddLanguageContext =>
                 /\ context' = Some("AddLanguage")
                 /\ emitted' = OpenContextDrawer(RegionEntity)
           /\ RegionContext =>
                 /\ context' = Some("Region")
                 /\ emitted' = OpenContextDrawer(RegionEntity)
           /\ context' # context =>
                 AddLanguageContext \/ RegionContext \/ Region_on_leave
           /\ (context # None /\ context' = None) => Region_on_leave
         ]_vars

\* RegionContext was handled after AddLanguageContext and the page was
\* drawn: the region drawer is shown.
C12_Witness ==
    /\ last = "RegionContext"
    /\ emitted = OpenContextDrawer(RegionEntity)
    /\ context = Some("Region")
    /\ drawer # None
    /\ Unwrap(drawer).title = "region"
    /\ Len(Unwrap(drawer).content) = NumLangs

\* ------------------------------------------ a time zone picked from an old list

\* The drawer on screen is the one context_drawer() gives now.
DateFresh == drawer = Date_context_drawer

\* A press reaches update() from the drawer on screen.  What futures
\* deliver is handled as it arrives, so a Refresh can be handled between the
\* drawing of a row and the press on it; everything else the user does is
\* done on a page that was drawn after the last update().
NextStaleTimezone ==
    \/ DateFresh /\ Date_on_enter
    \/ DateFresh /\ Date_on_leave
    \/ \E r \in DateRequests, failed \in { {}, { "list_timezones" } } :
          OnEnterStep(r, TRUE, failed)
    \/ \E r \in DateRequests : Date_Refresh(r)
    \/ DateFresh /\ TimezoneContext
    \/ Date_view
    \/ \E m \in DrawerPresses :
          (DateFresh \/ last = "Date.Refresh") /\ Timezone(m.id)
    \/ \E r \in DateRequests : SetTimezoneStep(r, TRUE)
    \/ \E r \in DateRequests : UpdateTime(r)
    \/ \E t \in SpawnedTasks : SetNtpTask(t, TRUE)

SpecStaleTimezone == InitLanguages /\ [][NextStaleTimezone]_vars

\* C13: timezone is None or an index below the length of timezone_list, so
\* the time-zone section's timezone_list[timezone] is always defined.
C13_TimezoneIndexInList ==
    timezone = None \/ InBounds(timezone_list, Unwrap(timezone))

\* ------------------------------------------ removing a preferred language

\* C14: RemoveLanguage(id) changes only the preferred-language list and its
\* stored copy: available_languages is as before and still has entry id.
C14_RemoveLanguageKeepsAvailable ==
    [][ \A id \in Keys, ok \in BOOLEAN :
           RemoveLanguage(id, ok) =>
              /\ available_languages' = available_languages
              /\ UNCHANGED << context, language, region, system_locales,
                              registry, expanded_source_popover,
                              add_language_search >>
      ]_vars

\* ------------------------------------------------- leaving the region page

\* The page is opened and left while reloads are under way.
NextRegionLeave ==
    \/ Region_on_enter
    \/ Region_on_leave
    \/ \E f \in RegionFutures : PageReloadStep(f, TRUE, TRUE)
    \/ \E f \in RegionFutures : Region_Refresh(f)
    \/ \E id \in Keys : SelectRegion(id)
    \/ \E f \in RegionFutures : SelectRegionSetLocale(f, TRUE)
    \/ \E f \in RegionFutures : SelectRegionTimeSettings(f, TRUE, TRUE, TRUE)
    \/ InstallAdditionalLanguages
    \/ \E f \in RegionFutures : InstallToolStep(f)

SpecRegionLeave == InitLanguages /\ [][NextRegionLeave]_vars

\* C15: from on_leave until the next on_enter the page holds no config,
\* language, region, registry or context, no available languages or system
\* locales, no expanded popover and an empty search.
C15_LeftPageStaysReset ==
    active # "region" =>
        /\ config = None
        /\ language = None
        /\ region = None
        /\ registry = None
        /\ context = None
        /\ available_languages = EmptySlotMap
        /\ system_locales = NoSystemLocales
        /\ expanded_source_popover = None
        /\ add_language_search = EmptyString

\* --------------------------------------- a new first preferred language

\* The step handled one of the messages that edit the preferred list and the
\* list has a first entry that it did not have before.
FirstEntryChanged ==
    /\ last' \in { "AddLanguage", "RemoveLanguage" } \cup SourceContextKinds
    /\ config # None /\ config' # None
    /\ Locales' # << >>
    /\ Locales = << >> \/ Locales[1] # Locales'[1]

\* A set_locale call with LANG = code was issued by the step.
SetLocaleIssued(code) ==
    \E t \in BagToSet(spawned') :
       /\ t.kind = "set_locale"
       /\ t.lang = code
       /\ CopiesIn(t, spawned') > CopiesIn(t, spawned)

\* C16: when a message gives the preferred list a new first entry and that
\* entry is the lang_code of an available language, page.language becomes
\* that language and set_locale is called with it as LANG.
C16_NewFirstEntryBecomesLanguage ==
    [][ (FirstEntryChanged /\ ~panicked' /\ IsSome(FindLanguage(Locales[1]))')
            => /\ language' = FindLanguage(Locales[1])'
               /\ SetLocaleIssued(Locales'[1])
      ]_vars

\* ------------------------------------- the time settings of a new region

\* The user sets the formats on the Date & Time page and picks regions on
\* the Region & Language page; localectl and the writes of the task may fail.
NextRegionTime ==
    \/ futures = EmptyBag /\ Date_on_enter
    \/ Date_on_leave
    \/ \E r \in DateRequests : OnEnterStep(r, TRUE, {})
    \/ \E r \in DateRequests : Date_Refresh(r)
    \/ MilitaryTime(TRUE, TRUE)
    \/ FirstDayOfWeek(4, TRUE)
    \/ requests = EmptyBag /\ Region_on_enter
    \/ futures = EmptyBag /\ Region_on_leave
    \/ \E f \in RegionFutures : PageReloadStep(f, TRUE, TRUE)
    \/ \E f \in RegionFutures : Region_Refresh(f)
    \/ \E id \in Keys :
          (futures = EmptyBag \/ language = None) /\ SelectRegion(id)
    \/ \E f \in RegionFutures, ok \in BOOLEAN : SelectRegionSetLocale(f, ok)
    \/ \E f \in RegionFutures, config_ok, ok1, ok2 \in BOOLEAN :
          SelectRegionTimeSettings(f, config_ok, ok1, ok2)

SpecRegionTime == InitLanguages /\ [][NextRegionTime]_vars

\* The defaults of a region, as the task computes them.
RegionDefaults(reg) ==
    [ military_time |-> Some(get_default_24h(reg)),
      first_day_of_week |-> Some(get_default_first_day(reg)) ]

\* C17 as stated: when the task of a SelectRegion completes (its Refresh is
\* delivered), military_time and first_day_of_week in the applet store are
\* the defaults of the selected region.
C17_StoreHoldsRegionDefaults ==
    [][ \A f \in RegionFutures :
           (f.kind = "SelectRegion" /\ Region_Refresh(f)) =>
              /\ applet_store'.military_time = RegionDefaults(f.region).military_time
              /\ applet_store'.first_day_of_week =
                    RegionDefaults(f.region).first_day_of_week
      ]_vars

\* C17, with the writes taken into account: the task goes on to the time
\* settings whether or not set_locale succeeded, and its update leaves in
\* each of the two keys the default of the selected region when the store
\* opens and the write of that key succeeds, whatever the user had stored,
\* and the key's old value otherwise; no other key changes.
C17_WrittenKeysHoldRegionDefaults ==
    [][ \A f \in RegionFutures :
          /\ \A ok \in BOOLEAN :
                SelectRegionSetLocale(f, ok) =>
                   BagIn([ f EXCEPT !.pc = "time_settings" ], futures')
          /\ \A config_ok, ok1, ok2 \in BOOLEAN :
                SelectRegionTimeSettings(f, config_ok, ok1, ok2) =>
                   /\ applet_store'.military_time =
                         IF config_ok /\ ok1
                         THEN RegionDefaults(f.region).military_time
                         ELSE applet_store.military_time
                   /\ applet_store'.first_day_of_week =
                         IF config_ok /\ ok2
                         THEN RegionDefaults(f.region).first_day_of_week
                         ELSE applet_store.first_day_of_week
                   /\ applet_store'.show_seconds = applet_store.show_seconds
                   /\ applet_store'.show_date_in_top_panel =
                         applet_store.show_date_in_top_panel
      ]_vars

\* The user had chosen Friday; the region was changed to the second locale,
\* set_locale failed, and the task has replaced the stored values by that
\* region's defaults.
C17_Witness ==
    /\ first_day_of_week = 4
    /\ applet_store.first_day_of_week = RegionDefaults(AllCodes[2]).first_day_of_week
    /\ applet_store.military_time = RegionDefaults(AllCodes[2]).military_time
    /\ locale1.LC_TIME # Some(AllCodes[2])
    /\ \E f \in RegionFutures :
          f.kind = "SelectRegion" /\ f.pc = "page_reload" /\ f.region = AllCodes[2]

\* --------------------------------------------------- what SelectRegion does

\* The step took the future f out of the bag (to run its next part or to
\* deliver its message).
Advanced(f) == CopiesIn(f, futures') < CopiesIn(f, futures)

\* C18: SelectRegion(id) with an available id and a language set sets
\* page.region to that entry at once and starts one task, which calls
\* set_locale(language code, region code), then updates the time settings in
\* the applet store, then reloads the page and delivers Refresh; with an
\* unknown id or no language it changes nothing and starts nothing.
C18_SelectRegionStartsOrderedTask ==
    [][ /\ \A id \in Keys :
             SelectRegion(id) =>
                IF HasKey(id) /\ language # None
                THEN /\ region' = Some(available_languages[id])
                     /\ futures' = BagAdd(futures,
                            Future("SelectRegion", "set_locale",
                                   Unwrap(language).lang_code,
                                   available_languages[id].lang_code, NoResult))
                     /\ UNCHANGED << config, context, language,
                                     available_languages, system_locales,
                                     registry, datePage, settings_store,
                                     applet_store, locale1, timedate1 >>
                ELSE UNCHANGED << regionPage, datePage, world >>
        /\ \A f \in RegionFutures :
             (f.kind = "SelectRegion" /\ Advanced(f)) =>
                CASE f.pc = "set_locale" ->
                        /\ locale1' \in { locale1,
                              [ LANG |-> Some(f.lang), LC_TIME |-> Some(f.region) ] }
                        /\ BagIn([ f EXCEPT !.pc = "time_settings" ], futures')
                        /\ UNCHANGED << applet_store, regionPage >>
                  [] f.pc = "time_settings" ->
                        /\ BagIn([ f EXCEPT !.pc = "page_reload" ], futures')
                        /\ UNCHANGED << locale1, regionPage >>
                  [] f.pc = "page_reload" ->
                        /\ \E g \in BagToSet(futures') :
                              g.kind = "SelectRegion" /\ g.pc = "deliver"
                        /\ UNCHANGED << locale1, applet_store, regionPage >>
                  [] OTHER ->
                        /\ f.pc = "deliver"
                        /\ last' = "Region.Refresh"
                        /\ futures' = BagRemove(futures, f)
      ]_vars

\* The task of SelectRegion(second locale) ran to the end: LC_TIME and the
\* stored formats are that region's, and the Refresh set page.region.
C18_Witness ==
    /\ last = "Region.Refresh"
    /\ futures = EmptyBag
    /\ region = Some(localized_locale(AllCodes[2]))
    /\ language = Some(localized_locale(AllCodes[1]))
    /\ locale1 = [ LANG |-> Some(AllCodes[1]), LC_TIME |-> Some(AllCodes[2]) ]
    /\ applet_store.military_time = Some(get_default_24h(AllCodes[2]))

\* ------------------------------------- the request a Timezone message starts

\* The requests Timezone messages started that have not been handled yet.
TimezoneRequests == { r \in DateRequests : r.kind = "Timezone" }

\* The indices a Timezone message can carry: those of the full list and one
\* beyond it.
TimezoneIds == 0..NumTz

\* The Date & Time page is entered and left, on_enter's connection may fail,
\* and a time zone is picked while no earlier pick is still in flight; every
\* call on timedate1 may fail.
NextTimezoneFair ==
    \/ Date_on_enter
    \/ Date_on_leave
    \/ \E r \in DateRequests, connected \in BOOLEAN : OnEnterStep(r, connected, {})
    \/ \E r \in DateRequests : Date_Refresh(r)
    \/ TimezoneContext
    \/ \E id \in TimezoneIds : NoTimezoneRequest /\ Timezone(id)
    \/ \E r \in DateRequests, ok \in BOOLEAN : SetTimezoneStep(r, ok)
    \/ \E r \in DateRequests : UpdateTime(r)
    \/ \E r \in DateRequests : Error(r)
    \/ \E t \in SpawnedTasks, ok \in BOOLEAN : SetNtpTask(t, ok)

\* The runtime polls every future it was handed until it resolves and hands
\* the message to update(); tokio runs every task that was spawned.
FairTimezone ==
    /\ WF_vars(\E r \in TimezoneRequests, ok \in BOOLEAN : SetTimezoneStep(r, ok))
    /\ WF_vars(\E r \in TimezoneRequests : UpdateTime(r))
    /\ WF_vars(\E r \in TimezoneRequests : Error(r))
    /\ WF_vars(\E t \in SpawnedTasks, ok \in BOOLEAN : SetNtpTask(t, ok))

SpecTimezoneFair == InitLanguages /\ [][NextTimezoneFair]_vars /\ FairTimezone

\* The outcome of the Timezone request has just been handled.
TimezoneOutcomeHandled ==
    /\ NoTimezoneRequest
    /\ last \in { Handled("UpdateTime"), Handled("Error") }
    /\ ~timezone_context
    /\ emitted = CloseContextDrawer

\* C19: a Timezone(id) with id inside timezone_list starts exactly one
\* set-timezone request for timezone_list[id]; the request resolves to
\* UpdateTime when set_timezone succeeded and to Error when it failed; its
\* outcome is eventually handled, and handling it clears timezone_context
\* and emits CloseContextDrawer.
C19_TimezoneRequestIsDelivered ==
    /\ [][ \A id \in TimezoneIds :
             Timezone(id) /\ InBounds(timezone_list, id) =>
                requests' = BagAdd(requests,
                    Request("Timezone", "run", timezone_list[id + 1], "", NoInfo)) ]_vars
    /\ [][ \A r \in TimezoneRequests, ok \in BOOLEAN :
             SetTimezoneStep(r, ok) =>
                requests' = BagAdd(BagRemove(requests, r),
                    Request("Timezone", "deliver", r.timezone,
                            IF ok THEN "UpdateTime" ELSE "Error", NoInfo)) ]_vars
    /\ [][ \A r \in TimezoneRequests :
             UpdateTime(r) \/ Error(r) =>
                /\ requests' = BagRemove(requests, r)
                /\ ~timezone_context'
                /\ emitted' = CloseContextDrawer ]_vars
    /\ ~NoTimezoneRequest ~> TimezoneOutcomeHandled

\* A drawer pick was applied by timedate1 and its UpdateTime was handled.
C19_Witness ==
    /\ TimezoneOutcomeHandled
    /\ last = Handled("UpdateTime")
    /\ timedate1.timezone = Timezones[2]
    /\ timezone = Some(1)

\* ------------------------------------------ ntp_enabled and the service

\* A first start on a system whose timedate1 may be unable to do NTP, or
\* may have it switched off.
InitNtp ==
    /\ InitRegionPage
    /\ InitDatePage(NoAppletStore, AllCodes[1], TRUE, TRUE)
    /\ settings_store = None
    /\ InitTasks
    /\ InitSystem

\* The calls of on_enter that decide Info.ntp_enabled may fail one at a time.
NtpFailures == { {}, { "can_ntp" }, { "ntp" } }

\* The Date & Time page is entered and left and a time zone is picked from
\* the loaded list; every call on timedate1 may fail.
NextNtp ==
    \/ Date_on_enter
    \/ Date_on_leave
    \/ \E r \in DateRequests, failed \in NtpFailures : OnEnterStep(r, TRUE, failed)
    \/ \E r \in DateRequests : OnEnterStep(r, FALSE, {})
    \/ \E r \in DateRequests : Date_Refresh(r)
    \/ \E r \in DateRequests : Error(r)
    \/ \E i \in ListedTimezones : Timezone(i)
    \/ \E r \in DateRequests, ok \in BOOLEAN : SetTimezoneStep(r, ok)
    \/ \E r \in DateRequests : UpdateTime(r)
    \/ \E t \in SpawnedTasks, ok \in BOOLEAN : SetNtpTask(t, ok)

SpecNtp == InitNtp /\ [][NextNtp]_vars

\* No future of the page and no spawned task is still running.
NtpSettled == requests = EmptyBag /\ spawned = EmptyBag

\* C20: once every request has completed, ntp_enabled is true only if
\* timedate1 can do NTP and has NTP enabled.
C20_NtpEnabledAgreesWithService ==
    NtpSettled /\ ntp_enabled => timedate1.can_ntp /\ timedate1.ntp

\* ----------------------------------------------- what Error leaves alone

\* C21: handling Error(why) sets timezone_context to false and emits
\* CloseContextDrawer; timezone, timezone_list, ntp_enabled, timezone_search
\* and the four format settings are as they were, whether the Error came
\* from a Timezone request or from on_enter.
C21_ErrorChangesOnlyTimezoneContext ==
    [][ \A r \in DateRequests :
          Error(r) =>
             /\ timezone_context' = FALSE
             /\ emitted' = CloseContextDrawer
             /\ UNCHANGED << timezone, timezone_list, ntp_enabled,
                             timezone_search, formatFields >> ]_vars

\* The Error of a failed set_timezone was handled with the drawer open and
\* a search typed: the index picked is kept though the service still has
\* the time zone of an earlier pick.
C21_Witness ==
    /\ last = Handled("Error")
    /\ emitted = CloseContextDrawer
    /\ ~timezone_context
    /\ timezone = Some(0)
    /\ timedate1.timezone = Timezones[2]
    /\ timezone_list = Timezones
    /\ timezone_search # EmptyString

\* ------------------------------------------- no language is listed twice

\* No code appears twice in the list.
DuplicateFree(v) == \A j, k \in 1..Len(v) : v[j] = v[k] => j = k

\* The step handled AddLanguage, RemoveLanguage or SourceContext.
ListMessageHandled ==
    /\ last' \in { Handled("AddLanguage"), Handled("RemoveLanguage"),
                   Handled("SourceContext") }
    /\ config' # config

StoredWeekdays == 0..7

\* The applet store with any first_day_of_week, or none.
WeekdayStores ==
    { [ NoAppletStore EXCEPT !.first_day_of_week = d ] :
        d \in { None } \cup { Some(x) : x \in StoredWeekdays } }

\* Page::default() ran on such a store.
InitWeekday ==
    /\ \E store \in WeekdayStores, env \in ProcessLocales, ok2 \in BOOLEAN :
          /\ IsSome(store.first_day_of_week) => ok2
          /\ InitDatePage(store, env, TRUE, ok2)
    /\ InitRegionPage
    /\ settings_store = None
    /\ InitTasks
    /\ locale1 = [ LANG |-> Some(AllCodes[1]), LC_TIME |-> None ]
    /\ timedate1 = [ timezone |-> Timezones[1], ntp |-> TRUE, can_ntp |-> TRUE ]

\* The Date & Time page is opened and rows of the dropdown are picked; the
\* write may fail.
NextWeekday ==
    \/ Date_on_enter
    \/ Date_on_leave
    \/ \E r \in DateRequests : OnEnterStep(r, TRUE, {})
    \/ \E r \in DateRequests : Date_Refresh(r)
    \/ Date_Surface
    \/ \E v \in WeekdayRows, ok \in BOOLEAN :
          FirstDayOfWeek(first_day_message(v), ok)

SpecWeekday == InitWeekday /\ [][NextWeekday]_vars

\* The value the claim gives for each row: Friday, Saturday, Sunday, Monday.
RowWeekday == << 4, 5, 6, 0 >>

\* C23: picking row v of the dropdown (0..3: Friday, Saturday, Sunday,
\* Monday) stores 4, 5, 6, 0, and the dropdown then shows row v; a stored
\* first_day_of_week other than 0, 4 and 5 is shown as Sunday (row 2).
C23_FirstDayDropdownRoundTrip ==
    /\ [][ \A v \in WeekdayRows, ok \in BOOLEAN :
             FirstDayOfWeek(first_day_message(v), ok) =>
                /\ first_day_of_week' = RowWeekday[v + 1]
                /\ first_day_selected(first_day_of_week') = v ]_vars
    /\ [](first_day_of_week \notin { 0, 4, 5 } =>
             first_day_selected(first_day_of_week) = 2)

\* Sunday was picked on a page that had started with Wednesday stored, and
\* the write failed.
C23_Witness ==
    /\ last = Handled("FirstDayOfWeek")
    /\ first_day_of_week = 6
    /\ applet_store.first_day_of_week = Some(2)
    /\ first_day_selected(first_day_of_week) = 2

\* ------------------------------------------- a failed write of a setting

\* update() returned Task::none(): nothing was emitted and no future or
\* task was started.
NothingReturned ==
    /\ emitted' = NoMessage
    /\ UNCHANGED << requests, futures, spawned >>

\* C24 as stated: when the write fails while MilitaryTime, ShowSeconds,
\* FirstDayOfWeek or ShowDate is handled, the field takes the new value,
\* nothing is emitted and no task is returned, and the store's value for
\* the key differs from the field (the message carries a value other than
\* the field's, as the toggler and the dropdown send it).
C24_FailedWriteLeavesDisagreement ==
    /\ [][ \A enable \in BOOLEAN :
             MilitaryTime(enable, FALSE) /\ enable # military_time =>
                /\ military_time' = enable /\ NothingReturned
                /\ applet_store'.military_time # Some(military_time') ]_vars
    /\ [][ \A enable \in BOOLEAN :
             ShowSeconds(enable, FALSE) /\ enable # show_seconds =>
                /\ show_seconds' = enable /\ NothingReturned
                /\ applet_store'.show_seconds # Some(show_seconds') ]_vars
    /\ [][ \A weekday \in WeekdayChoices :
             FirstDayOfWeek(weekday, FALSE) /\ weekday # first_day_of_week =>
                /\ first_day_of_week' = weekday /\ NothingReturned
                /\ applet_store'.first_day_of_week # Some(first_day_of_week') ]_vars
    /\ [][ \A enable \in BOOLEAN :
             ShowDate(enable, FALSE) /\ enable # show_date_in_top_panel =>
                /\ show_date_in_top_panel' = enable /\ NothingReturned
                /\ applet_store'.show_date_in_top_panel
                      # Some(show_date_in_top_panel') ]_vars

\* C24, amended: when the write fails, the field takes the new value,
\* nothing is emitted, no task is returned and the store is as it was; the
\* store's value for the key then differs from the field unless the store
\* already held the new value; a write that succeeds makes them agree.
C24_FailedWriteKeepsStoredValue ==
    /\ [][ \A enable \in BOOLEAN :
             MilitaryTime(enable, FALSE) =>
                /\ military_time' = enable /\ NothingReturned
                /\ applet_store' = applet_store
                /\ (applet_store'.military_time = Some(military_time'))
                      = (applet_store.military_time = Some(enable)) ]_vars
    /\ [][ \A enable \in BOOLEAN :
             ShowSeconds(enable, FALSE) =>
                /\ show_seconds' = enable /\ NothingReturned
                /\ applet_store' = applet_store
                /\ (applet_store'.show_seconds = Some(show_seconds'))
                      = (applet_store.show_seconds = Some(enable)) ]_vars
    /\ [][ \A weekday \in WeekdayChoices :
             FirstDayOfWeek(weekday, FALSE) =>
                /\ first_day_of_week' = weekday /\ NothingReturned
                /\ applet_store' = applet_store
                /\ (applet_store'.first_day_of_week = Some(first_day_of_week'))
                      = (applet_store.first_day_of_week = Some(weekday)) ]_vars
    /\ [][ \A enable \in BOOLEAN :
             ShowDate(enable, FALSE) =>
                /\ show_date_in_top_panel' = enable /\ NothingReturned
                /\ applet_store' = applet_store
                /\ (applet_store'.show_date_in_top_panel
                       = Some(show_date_in_top_panel'))
                      = (applet_store.show_date_in_top_panel = Some(enable)) ]_vars
    /\ [][ /\ \A enable \in BOOLEAN :
                 MilitaryTime(enable, TRUE) =>
                    applet_store'.military_time = Some(military_time')
           /\ \A enable \in BOOLEAN :
                 ShowSeconds(enable, TRUE) =>
                    applet_store'.show_seconds = Some(show_seconds')
           /\ \A weekday \in WeekdayChoices :
                 FirstDayOfWeek(weekday, TRUE) =>
                    applet_store'.first_day_of_week = Some(first_day_of_week')
           /\ \A enable \in BOOLEAN :
                 ShowDate(enable, TRUE) =>
                    applet_store'.show_date_in_top_panel
                       = Some(show_date_in_top_panel') ]_vars

\* 24-hour time was switched off and the write failed: the store still
\* holds true.
C24_Witness ==
    /\ last = Handled("MilitaryTime")
    /\ emitted = NoMessage
    /\ military_time = FALSE
    /\ applet_store.military_time = Some(TRUE)

\* --------------------------------------- the search of the time-zone drawer

\* The rows are those of the whole timezone_list, in its order.
FullTimezoneList(rows) ==
    /\ Len(rows) = Len(timezone_list)
    /\ \A k \in 1..Len(rows) :
          rows[k] = Row(timezone_list[k], FALSE, Some(Press("Timezone", k - 1)))

\* C25: TimezoneContext empties timezone_search as it opens the drawer, so
\* the drawer drawn next has an empty search field and lists the whole
\* timezone_list whatever had been typed; TimezoneSearch(text) changes
\* timezone_search and nothing else.
C25_DrawerOpensUnfiltered ==
    /\ [][ TimezoneContext =>
             /\ timezone_search' = EmptyString
             /\ timezone_context'
             /\ emitted' = OpenContextDrawer(DateEntity) ]_vars
    /\ [][ Date_view /\ last = Handled("TimezoneContext") =>
             /\ drawer' # None
             /\ Unwrap(drawer').header = EmptyString
             /\ FullTimezoneList(Unwrap(drawer').content) ]_vars
    /\ [][ \A text \in TimezoneSearches \cup { << "u" >> } :
             TimezoneSearch(text) =>
                /\ timezone_search' = text
                /\ NothingReturned
                /\ UNCHANGED << timezone_context, timezone, timezone_list,
                                ntp_enabled, formatFields >> ]_vars

\* The drawer was opened again after a time zone had been picked from it,
\* and is drawn with both time zones.
C25_Witness ==
    /\ last = Handled("TimezoneContext")
    /\ timezone_search = EmptyString
    /\ timedate1.timezone = Timezones[2]
    /\ drawer # None
    /\ Len(Unwrap(drawer).content) = NumTz
    /\ FullTimezoneList(Unwrap(drawer).content)

\* --------------------------------- the search text the two drawers share

\* What is typed into the search field of either drawer: a text that only
\* German matches, and the cleared field.
SharedSearches == { EmptyString, << "g", "e" >> }

\* The page is entered and left, both drawers are opened, a search is typed
\* and cleared, and the rows on screen are pressed.
NextSharedSearch ==
    \/ Region_on_enter
    \/ RegionQuiet /\ Region_on_leave
    \/ \E f \in RegionFutures : PageReloadStep(f, TRUE, TRUE)
    \/ \E f \in RegionFutures : Region_Refresh(f)
    \/ RegionQuiet /\ AddLanguageContext
    \/ RegionQuiet /\ RegionContext
    \/ \E search \in SharedSearches :
          RegionQuiet /\ drawer # None /\ AddLanguageSearch(search)
    \/ Region_view
    \/ \E m \in DrawerPresses :
          RegionFiltered /\ m.msg = "AddLanguage" /\ AddLanguage(m.id, TRUE)
    \/ \E m \in DrawerPresses :
          RegionFiltered /\ m.msg = "RemoveLanguage" /\ RemoveLanguage(m.id, TRUE)
    \/ \E m \in DrawerPresses :
          RegionFiltered /\ m.msg = "SelectRegion" /\ SelectRegion(m.id)
    \/ \E f \in RegionFutures : SelectRegionSetLocale(f, TRUE)
    \/ \E f \in RegionFutures : SelectRegionTimeSettings(f, TRUE, TRUE, TRUE)
    \/ RegionQuiet /\ context # None /\ ExpandLanguagePopover(Some(0))

SpecSharedSearch == InitLanguages /\ [][NextSharedSearch]_vars

\* C26: AddLanguageContext and RegionContext leave add_language_search as
\* it is; the drawer drawn after either shows that text in its search field
\* and lists only the languages matching it; add_language_search becomes
\* empty only by AddLanguageSearch with an empty string or by on_leave.
C26_DrawersShareSearchText ==
    /\ [][ AddLanguageContext \/ RegionContext =>
             UNCHANGED add_language_search ]_vars
    /\ [][ Region_view /\ context # None =>
             /\ Unwrap(drawer').header = add_language_search
             /\ IF Unwrap(context) = "AddLanguage"
                THEN AddLanguageRowsAsListed(Unwrap(drawer').content)
                ELSE RegionRowsAsListed(Unwrap(drawer').content) ]_vars
    /\ [][ add_language_search # EmptyString /\ add_language_search' = EmptyString
             => AddLanguageSearch(EmptyString) \/ Region_on_leave ]_vars

\* The region drawer was opened while the search field held a text, and is
\* drawn with that text and the one region matching it.
C26_Witness ==
    /\ last = Handled("RegionContext")
    /\ add_language_search = << "g", "e" >>
    /\ drawer # None
    /\ Unwrap(drawer).title = "region"
    /\ Unwrap(drawer).header = << "g", "e" >>
    /\ Len(Unwrap(drawer).content) = 1
    /\ Unwrap(drawer).content[1].text = localized_locale(AllCodes[2]).region_name

\* ------------------------------------------ constructing the Date & Time page

\* The application has started and the Date & Time page is not constructed
\* yet: the store is as the last session left it and the page's fields hold
\* nothing of it.
InitUnbuilt ==
    /\ applet_store \in InitialAppletStores
    /\ first_day_of_week = 0
    /\ military_time = FALSE
    /\ show_seconds = FALSE
    /\ show_date_in_top_panel = FALSE
    /\ ntp_enabled = FALSE
    /\ timezone = None
    /\ timezone_context = FALSE
    /\ timezone_list = << >>
    /\ timezone_search = EmptyString
    /\ InitRegionPage
    /\ settings_store = None
    /\ futures = EmptyBag
    /\ requests = EmptyBag
    /\ spawned = EmptyBag
    /\ panicked = FALSE
    /\ drawer = << >>
    /\ active = "unbuilt"
    /\ last = Handled("start")
    /\ emitted = NoMessage
    /\ locale1 = [ LANG |-> Some(AllCodes[1]), LC_TIME |-> None ]
    /\ timedate1 = [ timezone |-> Timezones[1], ntp |-> TRUE, can_ntp |-> TRUE ]

\* Page::default() for the process locale env; ok1 and ok2 tell whether the
\* writes of military_time and first_day_of_week succeed.
Page_default(env, ok1, ok2) ==
    /\ active = "unbuilt"
    /\ LET page == DatePageDefault(applet_store, env, ok1, ok2)
       IN  /\ first_day_of_week' = page.first_day_of_week
           /\ military_time' = page.military_time
           /\ show_seconds' = page.show_seconds
           /\ show_date_in_top_panel' = page.show_date_in_top_panel
           /\ applet_store' = page.store
    /\ ntp_enabled' = FALSE
    /\ timezone' = None
    /\ timezone_context' = FALSE
    /\ timezone_list' = << >>
    /\ timezone_search' = EmptyString
    /\ active' = "none"
    /\ last' = Handled("new")
    /\ emitted' = NoMessage
    /\ UNCHANGED << regionPage, settings_store, locale1, timedate1, futures,
                    requests, spawned, panicked, drawer >>

\* The page is constructed, opened and left, and the two settings the
\* constructor does not write are changed.
NextDefault ==
    \/ \E env \in ProcessLocales, ok1, ok2 \in BOOLEAN : Page_default(env, ok1, ok2)
    \/ Date_on_enter
    \/ Date_on_leave
    \/ \E r \in DateRequests : OnEnterStep(r, TRUE, {})
    \/ \E r \in DateRequests : Date_Refresh(r)
    \/ \E enable \in BOOLEAN : ShowSeconds(enable, TRUE)
    \/ \E enable \in BOOLEAN : ShowDate(enable, TRUE)

SpecDefault == InitUnbuilt /\ [][NextDefault]_vars

\* The defaults the claim names for a process locale: those of the locale,
\* false and 6 when it is not available.
Default24h(env) == IF env \in Codes THEN get_default_24h(env) ELSE FALSE
DefaultFirstDay(env) == IF env \in Codes THEN get_default_first_day(env) ELSE 6

\* The field takes the stored value of the key, or dflt when it is missing.
StoredOr(key, dflt) ==
    IF applet_store[key] = None THEN dflt ELSE Unwrap(applet_store[key])

====
